---------------------------- MODULE Spec2Model ----------------------------
(***************************************************************************)
(* Ingestion pipeline of SEC-Pulse (backend/app/services/feed_poller.py):  *)
(* the polling loop, the dedup ledger (_dedup over the seen_filings        *)
(* table), the per-cycle fan-out under asyncio.Semaphore(3) and the steps  *)
(* of _process_filing with its in-memory guard set, the filings table and  *)
(* the broadcast sink.                                                     *)
(*                                                                         *)
(* One action is one run of a coroutine between two suspension points      *)
(* (awaits): asyncio runs the code between two awaits without interleaving.*)
(***************************************************************************)
EXTENDS Integers, Sequences, FiniteSets, Bags, TLC

VARIABLES
    loop,                   \* where polling_loop is suspended
    dedup,                  \* frames of the running _dedup calls, by caller
    seen_filings,           \* table seen_filings: the accession numbers in it
    filings,                \* table filings: a bag of rows
    events,                 \* bag of the messages handed to broadcast_fn
    fetches,                \* bag of accession numbers whose document fetch was started
    currently_processing,   \* module global _currently_processing
    tasks,                  \* the _process_with_sem tasks of the current gather
    sem,                    \* value of the cycle's asyncio.Semaphore
    downloads,              \* the calls of _download_text and its semaphore
    call,                   \* a call of a pure function: its input and its result
    manager                 \* the ConnectionManager, its sockets and broadcast calls

vars == <<loop, dedup, seen_filings, filings, events, fetches,
          currently_processing, tasks, sem, downloads, call, manager>>

\* the variables of the ingestion pipeline
pipeline == <<loop, dedup, seen_filings, filings, events, fetches,
              currently_processing, tasks, sem>>

---------------------------------------------------------------------------
(* Bounds of the model *)

\* accession numbers are 1..NumAcc
NumAcc == 2
\* a feed poll returns at most MaxBatch entries
MaxBatch == 3

Acc == 1..NumAcc

\* the callers of _dedup: 1 is polling_loop; 2 is a second, overlapping caller
Callers == {1, 2}

---------------------------------------------------------------------------
(* Feed entries *)

\* A normalized entry (_parse_entry's dict): its accession number and the
\* rest of its fields, abstracted to the link of the feed item it came from.
Entry(a, k) == [accession_number |-> a, filing_url |-> k]

\* number of items of s[1..i] that carry accession number s[i]
Occurrence(s, i) == Cardinality({j \in 1..i : s[j] = s[i]})

\* A feed body: its items in feed order; the k-th item that announces an
\* accession number carries link k, so repeated items are distinguishable.
\* Feeds are listed in accession order.
FeedOf(s) == [i \in 1..Len(s) |-> Entry(s[i], Occurrence(s, i))]

Sorted(s) == \A i \in 1..Len(s), j \in 1..Len(s) : i < j => s[i] <= s[j]

Feeds ==
    {FeedOf(s) : s \in {q \in UNION {[1..n -> Acc] : n \in 0..MaxBatch} : Sorted(q)}}

AccsOf(es) == {es[i].accession_number : i \in 1..Len(es)}

---------------------------------------------------------------------------
(* _dedup *)

RECURSIVE SeenInBatchLast(_)
\* seen_in_batch[acc] = e without the membership test: the key keeps its
\* place, the value is the last entry
SeenInBatchLast(entries) ==
    IF entries = <<>> THEN <<>>
    ELSE LET front == SeenInBatchLast(SubSeq(entries, 1, Len(entries) - 1))
             e == entries[Len(entries)]
         IN  IF e.accession_number \notin {front[i].accession_number : i \in 1..Len(front)}
             THEN Append(front, e)
             ELSE [i \in 1..Len(front) |->
                      IF front[i].accession_number = e.accession_number
                      THEN e ELSE front[i]]

RECURSIVE SeenInBatch(_)
\* lines 163-168: the dict seen_in_batch, as its values in insertion order
SeenInBatch(entries) ==
    IF entries = <<>> THEN <<>>
    ELSE LET front == SeenInBatch(SubSeq(entries, 1, Len(entries) - 1))
             e == entries[Len(entries)]
         IN  IF e.accession_number \notin AccsOf(front)
             THEN Append(front, e)
             ELSE front

\* the filter of line 179 inverted
NewEntriesInverted(unique_entries, seen) ==
    SelectSeq(unique_entries, LAMBDA e : e.accession_number \in seen)

\* line 179
NewEntries(unique_entries, seen) ==
    SelectSeq(unique_entries, LAMBDA e : e.accession_number \notin seen)

\* lines 172-177: the rows of seen_filings among acc_numbers
SelectSeen(table, acc_numbers) == table \cap acc_numbers

\* seen_filings without a primary key
NoKeyConflict(table, new_entries) == FALSE

\* primary key of seen_filings: a flush that inserts a key the table holds,
\* or the same key twice, raises IntegrityError
PrimaryKeyConflict(table, new_entries) ==
    \/ AccsOf(new_entries) \cap table # {}
    \/ Cardinality(AccsOf(new_entries)) # Len(new_entries)

\* the inserts of lines 181-185 never reach the table
LedgerInsertNone(table, new_entries) == table

\* lines 181-186: the committed inserts
LedgerInsert(table, new_entries) == table \cup AccsOf(new_entries)

IdleFrame ==
    [pc |-> "idle", entries |-> <<>>, unique_entries |-> <<>>, new_entries |-> <<>>]

\* lines 159-172: called with a non-empty batch, _dedup runs to the select
DedupCall(c, entries) ==
    /\ dedup[c].pc \in {"idle", "returned", "raised"}
    /\ entries # <<>>
    /\ dedup' = [dedup EXCEPT ![c] =
                    [pc |-> "select", entries |-> entries,
                     unique_entries |-> SeenInBatch(entries),
                     new_entries |-> <<>>]]

\* lines 172-186: the select returns; the new rows are added; commit is awaited
DedupSelect(c) ==
    /\ dedup[c].pc = "select"
    /\ LET seen == SelectSeen(seen_filings, AccsOf(dedup[c].unique_entries))
       IN  dedup' = [dedup EXCEPT ![c].pc = "commit",
                                  ![c].new_entries =
                                      NewEntries(dedup[c].unique_entries, seen)]
    /\ UNCHANGED seen_filings

\* lines 186-188: the commit succeeds and _dedup returns new_entries
\* The caller's frame becomes `after`.
DedupCommit(c, after) ==
    /\ dedup[c].pc = "commit"
    /\ ~PrimaryKeyConflict(seen_filings, dedup[c].new_entries)
    /\ seen_filings' = LedgerInsert(seen_filings, dedup[c].new_entries)
    /\ dedup' = [dedup EXCEPT ![c] = after]

\* lines 172, 186: the select or the commit raises (IntegrityError on a key
\* conflict, or a storage error); the session is rolled back
DedupRaise(c, after) ==
    /\ dedup[c].pc \in {"select", "commit"}
    /\ dedup' = [dedup EXCEPT ![c] = after]
    /\ UNCHANGED seen_filings

---------------------------------------------------------------------------
(* routers/ws.py: ConnectionManager *)

\* the websockets that connect in a run, and the calls of broadcast
NumSockets == 3
MaxBroadcasts == 2

Sockets == 1..NumSockets
Broadcasts == 1..MaxBroadcasts

\* a call of broadcast that has not begun
IdleBroadcast ==
    [pc |-> "idle", used |-> 0, snapshot |-> {}, visited |-> {}, ws |-> 0,
     dead |-> {}, received |-> {}]

\* lines 18-19, 41: no connection yet, and no call of broadcast
NoSubscribers ==
    [active |-> {},
     sockets |-> [ws \in Sockets |-> "new"],
     frames |-> [b \in Broadcasts |-> IdleBroadcast]]

---------------------------------------------------------------------------
(* asyncio.Semaphore *)

\* a semaphore that admits one task too many
CanAcquireAtZero(value) == value >= 0

\* asyncio.Semaphore.acquire returns at once while the value is positive
CanAcquire(value) == value > 0

\* an exit of "async with" that keeps the slot
ReleaseNothing(value) == value

\* asyncio.Semaphore.release, run by every exit of "async with"
Release(value) == value + 1

---------------------------------------------------------------------------
(* _download_text (services/filing_fetcher.py), the one place that         *)
(* downloads index pages and documents. Its callers are anonymous, so the  *)
(* state counts the calls at each suspension point. Time is counted in     *)
(* steps of _INTER_REQUEST_DELAY (100 ms): Tick is the passage of one      *)
(* step, every other action takes no time.                                 *)

\* filing_fetcher.py line 23
DownloadSemaphoreValue == 8

\* number of calls of _download_text that are made
MaxCalls == 10

\* no call of _download_text is made
NoDownloads ==
    [value |-> DownloadSemaphoreValue, callers |-> 0, waiting |-> 0,
     sleeping |-> 0, ready |-> 0, requesting |-> 0, returned |-> 0,
     raised |-> 0, sent |-> 0]

\* calls that hold a slot of _download_sem
Holding == downloads.sleeping + downloads.ready + downloads.requesting

\* lines 27-29: a caller reaches "async with _download_sem"
DownloadCall ==
    /\ downloads.callers > 0
    /\ downloads' = [downloads EXCEPT !.callers = @ - 1, !.waiting = @ + 1]
    /\ UNCHANGED <<pipeline, call, manager>>

\* lines 29-30: the call takes a slot and starts asyncio.sleep
DownloadAcquire ==
    /\ downloads.waiting > 0
    /\ CanAcquire(downloads.value)
    /\ downloads' = [downloads EXCEPT !.waiting = @ - 1, !.value = @ - 1,
                                      !.sleeping = @ + 1]
    /\ UNCHANGED <<pipeline, call, manager>>

\* line 30: _INTER_REQUEST_DELAY passes; the sleeps that were started are over
Tick ==
    /\ downloads.sleeping + downloads.sent > 0
    /\ downloads' = [downloads EXCEPT !.ready = @ + downloads.sleeping,
                                      !.sleeping = 0, !.sent = 0]
    /\ UNCHANGED <<pipeline, call, manager>>

\* line 31: the request is sent; sent counts the requests of this instant
DownloadSend ==
    /\ downloads.ready > 0
    /\ downloads' = [downloads EXCEPT !.ready = @ - 1, !.requesting = @ + 1,
                                      !.sent = @ + 1]
    /\ UNCHANGED <<pipeline, call, manager>>

\* lines 31-35: the response arrives with a success status; the slot is released
DownloadReturn ==
    /\ downloads.requesting > 0
    /\ downloads' = [downloads EXCEPT !.requesting = @ - 1, !.returned = @ + 1,
                                      !.value = Release(@)]
    /\ UNCHANGED <<pipeline, call, manager>>

\* lines 31-32: client.get or raise_for_status raises; the slot is released
DownloadRaise ==
    /\ downloads.requesting > 0
    /\ downloads' = [downloads EXCEPT !.requesting = @ - 1, !.raised = @ + 1,
                                      !.value = Release(@)]
    /\ UNCHANGED <<pipeline, call, manager>>

---------------------------------------------------------------------------
(* Python and JSON values, tagged with their type *)

PyInt(n) == [type |-> "int", n |-> n]
\* a finite float, counted in tenths: PyFloat(-5) is -0.5
PyFloat(tenths) == [type |-> "float", n |-> tenths]
\* float("inf") and float("-inf"): what json.loads makes of Infinity or 1e999
Inf(sign) == [type |-> "inf", n |-> sign]
NaN == [type |-> "nan"]
Str(s) == [type |-> "str", s |-> s]
None == [type |-> "None"]
List(elements) == [type |-> "list", elements |-> elements]
\* the key is not in the dict
Missing == [type |-> "missing"]

\* the result of a call: a value, or an exception that leaves the function
Returned(v) == [outcome |-> "returned", value |-> v]
Raised(exc) == [outcome |-> "raised", value |-> Str(exc)]

\* no function of the model is being called
NoCall == [fn |-> "none", pc |-> "done"]

\* dict.get(key, default)
Get(v, default) == IF v.type = "missing" THEN default ELSE v

\* a score that is passed on as it is
ClampNothing(score) == score

\* max(-100, min(100, score))
Clamp(score) ==
    IF score > 100 THEN 100 ELSE IF score < -100 THEN -100 ELSE score

\* int(x) of a finite float: the fraction is dropped, towards zero
Truncate(tenths) ==
    IF tenths >= 0 THEN tenths \div 10 ELSE -((-tenths) \div 10)

\* str.lower() on the strings of the model
Lower(s) ==
    CASE s = "Bullish" -> "bullish"
      [] s = "BEARISH" -> "bearish"
      [] OTHER -> s

---------------------------------------------------------------------------
(* services/ai_processor.py: _parse_response and _validate_impact, the tail *)
(* of summarise_filing                                                      *)

\* The reply of the generative service. Its text is given by its layout and
\* by the JSON value written in it:
\*   "json"      the text is a JSON document
\*   "fenced"    prose around a fenced code block that holds a JSON object
\*   "embedded"  prose around a JSON object without nested braces
\*   "prose"     no JSON in the text
Reply(layout, value) == [layout |-> layout, value |-> value]

\* a JSON object: the keys that the code reads
Dict(impact, signal, summary) ==
    [type |-> "dict", impact |-> impact, signal |-> signal, summary |-> summary]

\* lines 119-124
FallbackDict == Dict(PyInt(0), Missing, TRUE)

\* lines 93-124
ParseResponse(reply) ==
    CASE reply.layout = "json" -> reply.value
      [] reply.layout = "fenced" -> reply.value
      [] reply.layout = "embedded" /\ reply.value.summary -> reply.value
      [] OTHER -> FallbackDict

\* line 134
Mapping(label) ==
    CASE label = "bullish" -> 60
      [] label = "bearish" -> -60
      [] OTHER -> 0

\* lines 137-140: int(raw) inside try / except (TypeError, ValueError)
IntOrZero(raw) ==
    CASE raw.type = "int" -> Returned(raw.n)
      [] raw.type = "float" -> Returned(Truncate(raw.n))
      [] raw.type = "inf" -> Raised("OverflowError")
      [] OTHER -> Returned(0)

\* lines 127-143
ValidateImpact(parsed) ==
    IF parsed.type # "dict" THEN Raised("AttributeError")
    ELSE LET given == Get(parsed.impact, Get(parsed.signal, PyInt(0)))
             raw == IF given.type = "str" THEN PyInt(Mapping(Lower(given.s)))
                    ELSE given
             score == IntOrZero(raw)
         IN  IF score.outcome = "raised" THEN score
             ELSE Returned(Dict(PyInt(Clamp(score.value)), Missing, parsed.summary))

\* lines 213-214
SummariseFiling(reply) == ValidateImpact(ParseResponse(reply))

\* the values of "impact" and of "signal" in the replies of the model
Impacts ==
    {PyInt(n) : n \in {-250, -100, -7, 0, 42, 100, 250}}
    \cup {PyFloat(x) : x \in {-1005, -999, -5, 5, 425, 1001}}
    \cup {Inf(1), Inf(-1), NaN, None, List({}), Missing}
    \cup {Str(x) : x \in {"bullish", "Bullish", "BEARISH", "neutral", "strong buy", "50"}}

Dicts ==
    {Dict(i, g, f) : i \in Impacts, g \in {Missing, Str("bearish"), PyInt(250)},
                     f \in BOOLEAN}

\* JSON documents that are not an object
NotObjects == {PyInt(42), PyFloat(5), Str("bullish"), None, List({})}

Replies ==
    {Reply(l, d) : l \in {"json", "fenced", "embedded"}, d \in Dicts}
    \cup {Reply("json", v) : v \in NotObjects}
    \cup {Reply("prose", None)}

---------------------------------------------------------------------------
(* services/alpha_engine.py: pre_classify *)

\* parsers/form_8k.py lines 38-39
BULLISH_ITEMS == {"1.01", "2.01", "2.02", "5.03", "5.07", "5.08"}
BEARISH_ITEMS ==
    {"1.02", "1.03", "2.04", "2.05", "2.06", "3.01", "3.03", "4.02", "5.02", "5.06"}

\* the fields map of a filing: the keys that pre_classify reads
Fields(items, form_subtype, strategy, ownership_pct, sentiment_score) ==
    [items |-> items, form_subtype |-> form_subtype, strategy |-> strategy,
     ownership_pct |-> ownership_pct, sentiment_score |-> sentiment_score]

\* set(x)
SetOf(v) ==
    IF v.type = "list" THEN Returned(v.elements) ELSE Raised("TypeError")

\* "activist" in x
ActivistIn(v) ==
    CASE v.type = "str" -> Returned(v.s \in {"activist", "potentially activist"})
      [] v.type = "list" -> Returned(FALSE)
      [] OTHER -> Raised("TypeError")

\* x and x > 5
TruthyAndOverFive(v) ==
    CASE v.type = "int" -> Returned(v.n > 5)
      [] v.type = "float" -> Returned(v.n > 50)
      [] v.type = "str" -> IF v.s = "" THEN Returned(FALSE) ELSE Raised("TypeError")
      [] OTHER -> Returned(FALSE)

\* max(-100, min(100, x * 20)): min and max return the argument they were
\* given, so a float strictly inside the range stays a float
ScaleSentiment(raw) ==
    CASE raw.type = "int" -> Returned(PyInt(Clamp(raw.n * 20)))
      [] raw.type = "float" ->
            Returned(IF raw.n * 20 < 1000 /\ raw.n * 20 > -1000
                     THEN PyFloat(raw.n * 20)
                     ELSE PyInt(Clamp(Truncate(raw.n * 20))))
      [] raw.type = "inf" -> Returned(PyInt(Clamp(raw.n * 1000)))
      [] raw.type = "nan" -> Returned(PyInt(100))
      [] OTHER -> Raised("TypeError")

\* a catalyst rule that looks for the bullish codes first
ClassifyCatalystBullishFirst(parsed_data) ==
    LET items == SetOf(Get(parsed_data.items, List({})))
    IN  IF items.outcome = "raised" THEN items
        ELSE IF items.value \cap BULLISH_ITEMS # {} THEN Returned(PyInt(70))
        ELSE IF items.value \cap BEARISH_ITEMS # {} THEN Returned(PyInt(-70))
        ELSE Returned(PyInt(0))

\* lines 12-18
ClassifyCatalyst(parsed_data) ==
    LET items == SetOf(Get(parsed_data.items, List({})))
    IN  IF items.outcome = "raised" THEN items
        ELSE IF items.value \cap BEARISH_ITEMS # {} THEN Returned(PyInt(-70))
        ELSE IF items.value \cap BULLISH_ITEMS # {} THEN Returned(PyInt(70))
        ELSE Returned(PyInt(0))

\* lines 20-30
ClassifyWhale(parsed_data) ==
    LET form_subtype == Get(parsed_data.form_subtype, Str(""))
        strategy == Get(parsed_data.strategy, Str(""))
        ownership == Get(parsed_data.ownership_pct, None)
        is13D == form_subtype.type = "str" /\ form_subtype.s = "13D"
        activist == ActivistIn(strategy)
        large == TruthyAndOverFive(ownership)
    IN  IF is13D /\ activist.outcome = "raised" THEN activist
        ELSE IF is13D /\ activist.value THEN Returned(PyInt(80))
        ELSE IF is13D THEN Returned(PyInt(60))
        ELSE IF large.outcome = "raised" THEN large
        ELSE IF large.value THEN Returned(PyInt(40))
        ELSE Returned(PyInt(0))

\* lines 32-35
ClassifyPulse(parsed_data) ==
    ScaleSentiment(Get(parsed_data.sentiment_score, PyInt(0)))

\* lines 9-37
PreClassify(segment, parsed_data) ==
    CASE segment = "catalyst" -> ClassifyCatalyst(parsed_data)
      [] segment = "whale" -> ClassifyWhale(parsed_data)
      [] segment = "pulse" -> ClassifyPulse(parsed_data)
      [] OTHER -> Returned(PyInt(0))

\* the values of FORM_TO_SEGMENT, and two segments that pre_classify has no
\* rule for
Segments == {"catalyst", "whale", "pulse", "insider", "dilution"}

\* fields maps, complete or not, with well-typed, null and ill-typed values
FieldMaps ==
    {Fields(i, f, s, o, n) :
        i \in {Missing, None, List({}), List({"1.02"}), List({"2.02"}),
               List({"1.02", "2.02"}), List({"8.01"})},
        f \in {Missing, None, Str("13D"), Str("13G")},
        s \in {Missing, None, Str("activist"), Str("potentially activist"),
               Str("passive")},
        o \in {Missing, None, PyInt(0), PyInt(5), PyInt(6), PyFloat(49), PyFloat(51)},
        n \in {Missing, None, PyInt(-6), PyInt(-5), PyInt(-1), PyInt(0), PyInt(3),
               PyInt(5), PyInt(7), PyFloat(15), PyFloat(70)}}

\* fields maps with a key that pre_classify does not read, and none of the
\* keys it reads
InsiderMaps ==
    {Fields(Missing, Missing, Missing, Missing, Missing)
        @@ [transaction_type |-> Str(code)] : code \in {"P", "S"}}

---------------------------------------------------------------------------
(* _process_filing, run by _process_with_sem under the cycle's semaphore *)

\* line 343
SemaphoreValue == 3

\* suspension points of a task, in program order
Running == {"check_existing", "fetch", "summarise", "commit", "refresh"}
\* the ways a task ends
Ended == {"skipped", "existing", "no_text", "published", "raised", "cancelled"}

NewTask(e) == [entry |-> e, pc |-> "wait_sem", reasons |-> "none", impact |-> Missing]

\* lines 349-351: one task per entry, in order
TasksFor(es) == [i \in 1..Len(es) |-> NewTask(es[i])]

TaskIds == 1..Len(tasks)

AccOf(t) == tasks[t].entry.accession_number

\* the guard of line 203 never turns a task away
NeverInFlight(acc) == FALSE

\* line 203
InFlight(acc) == acc \in currently_processing

\* a return that skips the finally clause
DiscardNothing(set, acc) == set

\* line 322
Discard(set, acc) == set \ {acc}

\* lines 210-213: the select on filings returns a row id
RowExists(acc) == \E r \in BagToSet(filings) : r.accession_number = acc

\* models.py line 16: unique=True on filings.accession_number
UniqueConflict(acc) == \E r \in BagToSet(filings) : r.accession_number = acc

\* What fetch_filing_document returns for a filing whose text is obtained:
\* the segment of the entry and the fields map of the parser of its form.
\* The document of a filing is fixed by its accession number.
Documents ==
    << [segment |-> "catalyst",
        parsed_data |-> Fields(List({"5.02", "9.01"}), Missing, Missing, Missing, Missing)],
       [segment |-> "pulse",
        parsed_data |-> Fields(Missing, Missing, Missing, Missing, PyInt(7))],
       [segment |-> "whale",
        parsed_data |-> Fields(Missing, Str("13D"), Str("activist"), PyFloat(87), Missing)],
       [segment |-> "pulse",
        parsed_data |-> Fields(Missing, Missing, Missing, Missing, Missing)],
       [segment |-> "catalyst",
        parsed_data |-> Fields(List({"2.02"}), Missing, Missing, Missing, Missing)] >>

DocumentOf(acc) == Documents[((acc - 1) % Len(Documents)) + 1]

\* line 226
HeuristicImpact(acc) ==
    PreClassify(DocumentOf(acc).segment, DocumentOf(acc).parsed_data)

\* the generative service gives no reply: connection refused, timeout or an
\* error status
Unreachable == Reply("none", None)

\* what the generative service does in the pipeline: a reply with an impact
\* out of range, a reply that is not a JSON object, or no reply
PipelineReplies ==
    {Reply("json", Dict(PyInt(250), Missing, TRUE)), Reply("json", List({})),
     Unreachable}

\* ai_processor.py lines 146-164, 167-214
CallSummarise(reply) ==
    IF reply.layout = "none" THEN Raised("ConnectError")
    ELSE SummariseFiling(reply)

\* a fallback that forgets the heuristic score
FallbackNeutral(heuristic_impact) ==
    [impact |-> PyInt(0), reasons |-> "heuristic"]

\* lines 252-262
Fallback(heuristic_impact) ==
    [impact |-> heuristic_impact, reasons |-> "heuristic"]

\* lines 243-262: the result of summarise_filing, or the fallback when it raises
AiResult(acc, reply) ==
    LET result == CallSummarise(reply)
    IN  IF result.outcome = "raised" THEN Fallback(HeuristicImpact(acc).value)
        ELSE [impact |-> result.value.impact, reasons |-> "slm"]

\* lines 274-290: the columns of the row that the model follows
Row(task) ==
    [accession_number |-> task.entry.accession_number,
     signal |-> task.impact,
     signal_reasons |-> task.reasons]

\* the in-progress message sent with the type of the final one
ProcessingEventMistyped(task) ==
    [type |-> "new_filing",
     accession_number |-> task.entry.accession_number]

\* lines 230-240
ProcessingEvent(task) ==
    [type |-> "filing_processing",
     accession_number |-> task.entry.accession_number]

\* the final message sent with the type of the in-progress one
NewFilingEventMistyped(task) ==
    [type |-> "filing_processing",
     accession_number |-> task.entry.accession_number]

\* lines 301-319
NewFilingEvent(task) ==
    [type |-> "new_filing",
     accession_number |-> task.entry.accession_number,
     impact |-> Row(task).signal,
     reasons |-> Row(task).signal_reasons]

\* a sink that is handed every message twice
PublishTwice(bag, event) == bag (+) SetToBag({event}) (+) SetToBag({event})

\* await broadcast_fn(message)
Publish(bag, event) == bag (+) SetToBag({event})

\* lines 346-347, 197-210: the task takes the semaphore and enters
\* _process_filing: turned away by the guard (the semaphore is released on
\* the way out), or registered and suspended at the select on filings
Start(t) ==
    /\ tasks[t].pc = "wait_sem"
    /\ CanAcquire(sem)
    /\ IF InFlight(AccOf(t))
       THEN /\ tasks' = [tasks EXCEPT ![t].pc = "skipped"]
            /\ UNCHANGED <<currently_processing, sem>>
       ELSE /\ tasks' = [tasks EXCEPT ![t].pc = "check_existing"]
            /\ currently_processing' = currently_processing \cup {AccOf(t)}
            /\ sem' = sem - 1
    /\ UNCHANGED <<loop, dedup, seen_filings, filings, events, fetches>>
    /\ UNCHANGED <<downloads, call, manager>>

\* lines 321-322 and the exit of "async with sem"
Finish(t, how) ==
    /\ tasks' = [tasks EXCEPT ![t].pc = how]
    /\ currently_processing' = Discard(currently_processing, AccOf(t))
    /\ sem' = sem + 1

\* lines 210-219: the select returns; return if the row exists, else the
\* fetch of the index page is started
CheckExisting(t) ==
    /\ tasks[t].pc = "check_existing"
    /\ IF RowExists(AccOf(t))
       THEN /\ Finish(t, "existing")
            /\ UNCHANGED fetches
       ELSE /\ tasks' = [tasks EXCEPT ![t].pc = "fetch"]
            /\ fetches' = fetches (+) SetToBag({AccOf(t)})
            /\ UNCHANGED <<currently_processing, sem>>
    /\ UNCHANGED <<loop, dedup, seen_filings, filings, events>>
    /\ UNCHANGED <<downloads, call, manager>>

\* lines 217-223: fetch_filing_document returns no text
FetchEmpty(t) ==
    /\ tasks[t].pc = "fetch"
    /\ Finish(t, "no_text")
    /\ UNCHANGED <<loop, dedup, seen_filings, filings, events, fetches>>
    /\ UNCHANGED <<downloads, call, manager>>

\* lines 217-251: fetch_filing_document returns text; pre_classify runs (an
\* exception of it leaves the task); filing_processing is broadcast and
\* summarise_filing is awaited
FetchText(t) ==
    /\ tasks[t].pc = "fetch"
    /\ IF HeuristicImpact(AccOf(t)).outcome = "raised"
       THEN /\ Finish(t, "raised")
            /\ UNCHANGED events
       ELSE /\ events' = Publish(events, ProcessingEvent(tasks[t]))
            /\ tasks' = [tasks EXCEPT ![t].pc = "summarise"]
            /\ UNCHANGED <<currently_processing, sem>>
    /\ UNCHANGED <<loop, dedup, seen_filings, filings, fetches>>
    /\ UNCHANGED <<downloads, call, manager>>

\* lines 244-292: summarise_filing returns or raises and the heuristic result
\* is substituted; the row is added and the commit is awaited
Summarise(t, reply) ==
    /\ tasks[t].pc = "summarise"
    /\ tasks' = [tasks EXCEPT ![t].pc = "commit",
                              ![t].reasons = AiResult(AccOf(t), reply).reasons,
                              ![t].impact = AiResult(AccOf(t), reply).impact]
    /\ UNCHANGED <<loop, dedup, seen_filings, filings, events, fetches,
                   currently_processing, sem>>
    /\ UNCHANGED <<downloads, call, manager>>

\* lines 292-293: the commit succeeds; refresh is awaited
Commit(t) ==
    /\ tasks[t].pc = "commit"
    /\ ~UniqueConflict(AccOf(t))
    /\ filings' = filings (+) SetToBag({Row(tasks[t])})
    /\ tasks' = [tasks EXCEPT ![t].pc = "refresh"]
    /\ UNCHANGED <<loop, dedup, seen_filings, events, fetches,
                   currently_processing, sem>>
    /\ UNCHANGED <<downloads, call, manager>>

\* lines 293-322: the refresh returns; new_filing is broadcast; the task ends
Refresh(t) ==
    /\ tasks[t].pc = "refresh"
    /\ events' = Publish(events, NewFilingEvent(tasks[t]))
    /\ Finish(t, "published")
    /\ UNCHANGED <<loop, dedup, seen_filings, filings, fetches>>
    /\ UNCHANGED <<downloads, call, manager>>

\* lines 210, 292, 293: a database call raises (IntegrityError on the unique
\* column at the commit, or a storage error); the exception leaves the task
\* through the finally clause and is collected by gather
Raise(t) ==
    /\ tasks[t].pc \in {"check_existing", "commit", "refresh"}
    /\ Finish(t, "raised")
    /\ UNCHANGED <<loop, dedup, seen_filings, filings, events, fetches>>
    /\ UNCHANGED <<downloads, call, manager>>

---------------------------------------------------------------------------
(* polling_loop *)

\* a cycle without a handler: every exception leaves the loop
CatchesNothing(exc) == FALSE

\* a handler that catches CancelledError as well, as "except BaseException"
CatchesAll(exc) == TRUE

\* lines 152 and 353, "except Exception": every exception that a request,
\* a parser or the database raises is an Exception; CancelledError is not
Catches(exc) == exc # "CancelledError"

\* where the loop goes when exc is raised inside the try of the cycle
AfterError(exc) == IF Catches(exc) THEN "sleep" ELSE "crashed"

\* where the loop goes when CancelledError is raised at its await: the sleep
\* of line 356 is outside the try, every other await is inside it
AfterCancel ==
    IF loop # "sleep" /\ Catches("CancelledError") THEN "sleep" ELSE "cancelled"

\* a gather that returns with the first exception of a task
GatherReturnsOnError ==
    \/ \A t \in TaskIds : tasks[t].pc \in Ended
    \/ \E t \in TaskIds : tasks[t].pc = "raised"

\* lines 349-352, return_exceptions=True: gather returns when every task
\* has returned or raised
GatherReturns == \A t \in TaskIds : tasks[t].pc \in Ended

Init ==
    /\ loop = "poll"
    /\ dedup = [c \in Callers |-> IdleFrame]
    /\ seen_filings = {}
    /\ filings = EmptyBag
    /\ events = EmptyBag
    /\ fetches = EmptyBag
    /\ currently_processing = {}
    /\ tasks = <<>>
    /\ sem = SemaphoreValue
    /\ downloads = NoDownloads
    /\ call = NoCall
    /\ manager = NoSubscribers

\* lines 337-338, 141-151: the feed request returns and normalization keeps
\* `feed`; _dedup is called. With no entry _dedup returns [] at once and the
\* empty gather completes.
Poll(feed) ==
    /\ loop = "poll"
    /\ IF feed = <<>>
       THEN /\ loop' = "sleep"
            /\ sem' = SemaphoreValue
            /\ UNCHANGED dedup
       ELSE /\ DedupCall(1, feed)
            /\ loop' = "dedup"
            /\ UNCHANGED sem
    /\ UNCHANGED <<seen_filings, filings, events, fetches,
                   currently_processing, tasks>>
    /\ UNCHANGED <<downloads, call, manager>>

\* lines 152-154, 338-352: the feed request fails; _poll_once returns []
PollFail ==
    /\ loop = "poll"
    /\ loop' = AfterError("HTTPError")
    /\ sem' = SemaphoreValue
    /\ UNCHANGED <<dedup, seen_filings, filings, events, fetches,
                   currently_processing, tasks>>
    /\ UNCHANGED <<downloads, call, manager>>

LoopDedupSelect ==
    /\ loop = "dedup"
    /\ DedupSelect(1)
    /\ UNCHANGED <<loop, filings, events, fetches, currently_processing,
                   tasks, sem>>
    /\ UNCHANGED <<downloads, call, manager>>

\* lines 338-352: _dedup returns; the semaphore and the tasks are created
\* and gather is awaited
LoopDedupReturn ==
    /\ loop = "dedup"
    /\ DedupCommit(1, IdleFrame)
    /\ tasks' = TasksFor(dedup[1].new_entries)
    /\ sem' = SemaphoreValue
    /\ loop' = "gather"
    /\ UNCHANGED <<filings, events, fetches, currently_processing>>
    /\ UNCHANGED <<downloads, call, manager>>

\* lines 353-356: _dedup raises; the cycle's except clause logs it
LoopDedupRaise ==
    /\ loop = "dedup"
    /\ DedupRaise(1, IdleFrame)
    /\ loop' = AfterError("SQLAlchemyError")
    /\ UNCHANGED <<filings, events, fetches, currently_processing, tasks, sem>>
    /\ UNCHANGED <<downloads, call, manager>>

\* lines 349-356: every task has ended; gather returns
GatherDone ==
    /\ loop = "gather"
    /\ GatherReturns
    /\ loop' = "sleep"
    /\ tasks' = <<>>
    /\ UNCHANGED <<dedup, seen_filings, filings, events, fetches,
                   currently_processing, sem>>
    /\ UNCHANGED <<downloads, call, manager>>

\* lines 356, 335
Wake ==
    /\ loop = "sleep"
    /\ loop' = "poll"
    /\ UNCHANGED <<dedup, seen_filings, filings, events, fetches,
                   currently_processing, tasks, sem>>
    /\ UNCHANGED <<downloads, call, manager>>

RECURSIVE RowsLanded(_)
\* the rows of the tasks ts
RowsLanded(ts) ==
    IF ts = {} THEN EmptyBag
    ELSE LET t == CHOOSE x \in ts : TRUE
         IN  SetToBag({Row(tasks[t])}) (+) RowsLanded(ts \ {t})

\* the commits in flight that the database may still complete when their
\* awaiting task is cancelled: they obey the unique column
MayLand(ts) ==
    /\ \A t \in ts : tasks[t].pc = "commit" /\ ~UniqueConflict(AccOf(t))
    /\ \A t \in ts, u \in ts : AccOf(t) = AccOf(u) => t = u

\* main.py lines 34-38: poll_task.cancel(). CancelledError is raised at the
\* await where polling_loop is suspended; a cancelled gather cancels its
\* tasks, each leaves through its finally clause and its "async with sem".
\* A commit handed to the database when its task is cancelled may complete.
Cancel ==
    /\ loop \notin {"cancelled", "crashed"}
    /\ loop' = AfterCancel
    /\ \E landed \in SUBSET {t \in TaskIds : tasks[t].pc = "commit"} :
          /\ MayLand(landed)
          /\ filings' = filings (+) RowsLanded(landed)
    /\ \E lands \in BOOLEAN :
          /\ lands => /\ dedup[1].pc = "commit"
                      /\ ~PrimaryKeyConflict(seen_filings, dedup[1].new_entries)
          /\ seen_filings' = IF lands
                             THEN LedgerInsert(seen_filings, dedup[1].new_entries)
                             ELSE seen_filings
    /\ dedup' = [dedup EXCEPT ![1] = IdleFrame]
    /\ tasks' = [t \in TaskIds |->
                    IF tasks[t].pc \in Ended THEN tasks[t]
                    ELSE [tasks[t] EXCEPT !.pc = "cancelled"]]
    /\ currently_processing' =
          currently_processing \ {AccOf(t) : t \in {u \in TaskIds : tasks[u].pc \in Running}}
    /\ sem' = sem + Cardinality({t \in TaskIds : tasks[t].pc \in Running})
    /\ UNCHANGED <<events, fetches>>
    /\ UNCHANGED <<downloads, call, manager>>

TaskStep(t) ==
    \/ Start(t)
    \/ CheckExisting(t)
    \/ FetchEmpty(t)
    \/ FetchText(t)
    \/ \E reply \in PipelineReplies : Summarise(t, reply)
    \/ Commit(t)
    \/ Refresh(t)
    \/ Raise(t)

LoopStep ==
    \/ \E feed \in Feeds : Poll(feed)
    \/ PollFail
    \/ LoopDedupSelect
    \/ LoopDedupReturn
    \/ LoopDedupRaise
    \/ GatherDone
    \/ Wake

Next ==
    \/ LoopStep
    \/ \E t \in TaskIds : TaskStep(t)
    \/ Cancel

Spec == Init /\ [][Next]_vars

---------------------------------------------------------------------------
(* The pipeline without shutdown, under the scheduling of the event loop:  *)
(* every await of polling_loop and of every task returns or raises (each   *)
(* request has a timeout), so a coroutine that can run does run. Which way *)
(* a request ends is not constrained.                                      *)

RunNext ==
    \/ LoopStep
    \/ \E t \in TaskIds : TaskStep(t)

FairSpec ==
    /\ Init
    /\ [][RunNext]_vars
    /\ WF_vars(LoopStep)
    /\ \A t \in 1..MaxBatch : WF_vars(t \in TaskIds /\ TaskStep(t))

---------------------------------------------------------------------------
(* One gather (lines 343-352) over a given list of entries under one       *)
(* Semaphore(3), without the loop around it.                               *)

GatherNext ==
    \/ \E t \in TaskIds : TaskStep(t)
    \/ GatherDone

InitTasks(lists) ==
    /\ loop = "gather"
    /\ dedup = [c \in Callers |-> IdleFrame]
    /\ \E es \in lists :
          /\ tasks = TasksFor(es)
          /\ seen_filings = AccsOf(es)
    /\ filings = EmptyBag
    /\ events = EmptyBag
    /\ fetches = EmptyBag
    /\ currently_processing = {}
    /\ sem = SemaphoreValue
    /\ downloads = NoDownloads
    /\ call = NoCall
    /\ manager = NoSubscribers

\* a gather runs at most MaxTasks tasks
MaxTasks == 4

\* what _dedup returns on an empty ledger: entries of distinct accession numbers
GatherLists == {FeedOf([i \in 1..n |-> i]) : n \in 1..MaxTasks}

InitGather == InitTasks(GatherLists)

SpecGather == InitGather /\ [][GatherNext]_vars

\* Tasks for the same accession number that run concurrently: the gather
\* over a list that names an accession number more than once.
InitGuard == InitTasks(Feeds \ {<<>>})

SpecGuard == InitGuard /\ [][GatherNext]_vars

---------------------------------------------------------------------------
(* Two calls of _dedup that overlap in time, each on its own batch and its *)
(* own session, over every content of the ledger.                          *)

InitOverlap ==
    /\ loop = "dedup"
    /\ \E b1 \in Feeds \ {<<>>}, b2 \in Feeds \ {<<>>} :
          dedup = [c \in Callers |->
                      [pc |-> "select",
                       entries |-> IF c = 1 THEN b1 ELSE b2,
                       unique_entries |-> SeenInBatch(IF c = 1 THEN b1 ELSE b2),
                       new_entries |-> <<>>]]
    /\ seen_filings \in SUBSET Acc
    /\ filings = EmptyBag
    /\ events = EmptyBag
    /\ fetches = EmptyBag
    /\ currently_processing = {}
    /\ tasks = <<>>
    /\ sem = SemaphoreValue
    /\ downloads = NoDownloads
    /\ call = NoCall
    /\ manager = NoSubscribers

FrameEnded(c, how) == [dedup[c] EXCEPT !.pc = how]

OverlapStep(c) ==
    \/ DedupSelect(c)
    \/ DedupCommit(c, FrameEnded(c, "returned"))
    \/ DedupRaise(c, FrameEnded(c, "raised"))

OverlapNext ==
    /\ \E c \in Callers : OverlapStep(c)
    /\ UNCHANGED <<loop, filings, events, fetches, currently_processing,
                   tasks, sem>>
    /\ UNCHANGED <<downloads, call, manager>>

SpecOverlap == InitOverlap /\ [][OverlapNext]_vars

---------------------------------------------------------------------------
(* Calls of _download_text on their own: MaxCalls callers, more than the    *)
(* semaphore admits, at any times.                                          *)

\* the pipeline as constructed, left alone
PipelineIdle ==
    /\ loop = "poll"
    /\ dedup = [c \in Callers |-> IdleFrame]
    /\ seen_filings = {}
    /\ filings = EmptyBag
    /\ events = EmptyBag
    /\ fetches = EmptyBag
    /\ currently_processing = {}
    /\ tasks = <<>>
    /\ sem = SemaphoreValue
    /\ manager = NoSubscribers

InitDownloads ==
    /\ PipelineIdle
    /\ downloads = [NoDownloads EXCEPT !.callers = MaxCalls]
    /\ call = NoCall

DownloadNext ==
    \/ DownloadCall
    \/ DownloadAcquire
    \/ Tick
    \/ DownloadSend
    \/ DownloadReturn
    \/ DownloadRaise

SpecDownloads == InitDownloads /\ [][DownloadNext]_vars

---------------------------------------------------------------------------
(* summarise_filing from the reply of the generative service on, and       *)
(* pre_classify, each called once on every input of the model.             *)

Called(fn, input) == [fn |-> fn, pc |-> "called", input |-> input]

Done(result) == [fn |-> call.fn, pc |-> "done", input |-> call.input,
                 result |-> result]

InitReplies ==
    /\ PipelineIdle
    /\ downloads = NoDownloads
    /\ call \in {Called("summarise_filing", r) : r \in Replies}

SummariseFilingEnds ==
    /\ call.fn = "summarise_filing"
    /\ call.pc = "called"
    /\ call' = Done(SummariseFiling(call.input))
    /\ UNCHANGED <<pipeline, downloads, manager>>

SpecReplies == InitReplies /\ [][SummariseFilingEnds]_vars

InitClassify ==
    /\ PipelineIdle
    /\ downloads = NoDownloads
    /\ call \in {Called("pre_classify", [segment |-> s, parsed_data |-> d]) :
                    s \in Segments, d \in FieldMaps \cup InsiderMaps}

PreClassifyEnds ==
    /\ call.fn = "pre_classify"
    /\ call.pc = "called"
    /\ call' = Done(PreClassify(call.input.segment, call.input.parsed_data))
    /\ UNCHANGED <<pipeline, downloads, manager>>

SpecClassify == InitClassify /\ [][PreClassifyEnds]_vars

---------------------------------------------------------------------------
(* services/feed_poller.py: FORM_TO_SEGMENT, load_cik_ticker_map,
   _parse_entry, _poll_once *)

\* a form type is the sequence of its parts between the slashes:
\* "8-K/A" is <<"8-K", "A">>
FormType(base, amended) == IF amended THEN <<base, "A">> ELSE <<base>>

\* form_type.split("/")[0]
BaseForm(form_type) == Head(form_type)

\* the keys of FORM_TO_SEGMENT for these base forms: each with and without /A
KeysOf(bases) == {FormType(b, a) : b \in bases, a \in BOOLEAN}

WhaleForms ==
    {"SC 13D", "SC 13G", "SCHEDULE 13D", "SCHEDULE 13G", "13D", "13G"}

\* lines 36-55
FORM_TO_SEGMENT ==
    [k \in KeysOf({"8-K"}) |-> "catalyst"]
    @@ [k \in KeysOf(WhaleForms) |-> "whale"]
    @@ [k \in KeysOf({"10-Q", "10-K"}) |-> "pulse"]

\* lines 118-123: the segment of the form type, or of its base form; None
\* when neither is a key
SegmentOf(form_type) ==
    IF form_type \in DOMAIN FORM_TO_SEGMENT
    THEN Str(FORM_TO_SEGMENT[form_type])
    ELSE IF <<BaseForm(form_type)>> \in DOMAIN FORM_TO_SEGMENT
    THEN Str(FORM_TO_SEGMENT[<<BaseForm(form_type)>>])
    ELSE None

\* the base forms of the dispatch and of FORM_TO_SEGMENT, and three that
\* neither knows
BaseForms ==
    {"8-K", "4", "S-1", "S-3", "424B2", "424B3", "424B4", "424B5",
     "10-Q", "10-K", "3", "6-K", "D"} \cup WhaleForms

FormTypes == {FormType(b, a) : b \in BaseForms, a \in BOOLEAN}

\* a company id as a string of digits: its number and its leading zeros
Digits(number, zeros) == [number |-> number, zeros |-> zeros]

RECURSIVE NumDigits(_)
NumDigits(n) == IF n < 10 THEN 1 ELSE 1 + NumDigits(n \div 10)

\* line 59, (\d{10}): the id in a feed title is ten digits, zero-padded
TitleCik(number) == Digits(number, 10 - NumDigits(number))

\* line 80, str(v["cik_str"]): the decimal digits of the number, unpadded
StrOfInt(number) == Digits(number, 0)

\* company ids: two of a few digits and one of ten digits
Ciks == {320193, 789019, 1000000001}

\* the ticker of a company in company_tickers.json
TickerOf(number) ==
    CASE number = 320193 -> Str("AAPL")
      [] number = 789019 -> Str("MSFT")
      [] OTHER -> Str("XYZ")

\* dict.get(key, default)
DictGet(dict, key, default) == IF key \in DOMAIN dict THEN dict[key] ELSE default

\* the empty dict
EmptyDict == [k \in {} |-> None]

\* lines 72-85: the table built from the companies of the response; on a
\* failed request or response the global keeps its initial value, line 63
LoadCikTickerMap(response) ==
    IF response.ok
    THEN [k \in {StrOfInt(n) : n \in response.companies} |->
             TickerOf((CHOOSE n \in response.companies : StrOfInt(n) = k))]
    ELSE EmptyDict

\* the responses to the request of line 73
Responses ==
    {[ok |-> FALSE, companies |-> {}]}
        \cup {[ok |-> TRUE, companies |-> c] : c \in SUBSET Ciks}

\* a feed entry: whether its title matches _TITLE_RE, the form type of its
\* tag and the company id of its title
FeedEntry(title_matches, form_type, cik) ==
    [title_matches |-> title_matches, form_type |-> form_type, cik |-> cik]

FeedEntries ==
    {FeedEntry(m, f, TitleCik(c)) : m \in BOOLEAN, f \in FormTypes, c \in Ciks}

\* line 146, _parse_entry(entry): the second argument is left out, and the
\* parameter _cik_ticker takes its default, None
PassedTable(table) == None

\* line 90, "_cik_ticker or {}": the parameter shadows the global of line 63
TableOrEmpty(passed) ==
    IF passed.type = "None" THEN EmptyDict ELSE passed.entries

\* lines 88-135: the normalized filing, or None
ParseEntry(entry, passed) ==
    LET table == TableOrEmpty(passed)
        segment == SegmentOf(entry.form_type)
    IN  IF ~entry.title_matches THEN None
        ELSE IF segment = None THEN None
        ELSE [type |-> "dict",
              form_type |-> entry.form_type,
              segment |-> segment,
              cik |-> entry.cik,
              ticker |-> DictGet(table, entry.cik, Str("..."))]

\* lines 145-148: the entry as _poll_once appends it, or nothing
PollOnceEntry(table, entry) == ParseEntry(entry, PassedTable(table))

InitEntries ==
    /\ PipelineIdle
    /\ downloads = NoDownloads
    /\ call \in {Called("_poll_once",
                        [_cik_ticker |-> LoadCikTickerMap(r), response |-> r,
                         entry |-> e]) :
                    r \in Responses, e \in FeedEntries}

PollOnceEnds ==
    /\ call.fn = "_poll_once"
    /\ call.pc = "called"
    /\ call' = Done(PollOnceEntry(call.input._cik_ticker, call.input.entry))
    /\ UNCHANGED <<pipeline, downloads, manager>>

SpecEntries == InitEntries /\ [][PollOnceEnds]_vars

---------------------------------------------------------------------------
(* parsers/*.py and services/filing_fetcher.py: fetch_filing_document *)

\* the (text, fields) pair that a parser returns
Pair(text, fields) == [type |-> "tuple", text |-> text, fields |-> fields]

\* a number as a regular expression captures it: a sequence of the
\* characters "1" (a digit), "," and "."
IsDigit(c) == c = "1"
IsDot(c) == c = "."
NotComma(c) == c # ","

\* s.replace(",", "")
RemoveCommas(chars) == SelectSeq(chars, NotComma)

\* the number with this many digits "1"
RECURSIVE Ones(_)
Ones(k) == IF k = 0 THEN 0 ELSE 10 * Ones(k - 1) + 1

\* float(s) for a string of digits, commas and dots: ValueError unless it is
\* digits with at most one dot among them; the value is kept in tenths
Float(chars) ==
    LET digits == Len(SelectSeq(chars, IsDigit))
        dots == Len(SelectSeq(chars, IsDot))
        whole == IF dots = 0 THEN Len(chars)
                 ELSE (CHOOSE i \in 1..Len(chars) : chars[i] = ".") - 1
    IN  IF digits = 0 \/ dots > 1 \/ digits + dots # Len(chars)
        THEN Raised("ValueError")
        ELSE Returned(PyFloat(10 * Ones(whole) + (IF digits > whole THEN 1 ELSE 0)))

\* a conversion that yields None where float raises
FloatOrNone(chars) ==
    LET f == Float(chars)
    IN  IF f.outcome = "raised" THEN Returned(None) ELSE f

\* the first exception of a list of results, or the list of their values
RECURSIVE AllValues(_)
AllValues(results) ==
    IF results = <<>> THEN Returned(<<>>)
    ELSE IF Head(results).outcome = "raised" THEN Head(results)
    ELSE LET rest == AllValues(Tail(results))
         IN  IF rest.outcome = "raised" THEN rest
             ELSE Returned(<<Head(results).value>> \o rest.value)

\* max(xs) if xs else None, for a list of floats
MaxOrNone(floats) ==
    IF floats = <<>> THEN None
    ELSE floats[CHOOSE i \in 1..Len(floats) :
                   \A j \in 1..Len(floats) : floats[j].n <= floats[i].n]

\* form_s1_s3.py lines 24-34: group 1 without its commas as a float, times
\* the multiplier of group 2
ParseDollarAmount(match) ==
    LET amount == Float(RemoveCommas(match.group))
    IN  IF amount.outcome = "raised" THEN amount
        ELSE Returned(PyFloat(amount.value.n *
                (IF match.multiplier = "thousand" THEN 1000 ELSE 1)))

\* form_s1_s3.py line 52: float(s.replace(",", ""))
ParseShares(chars) == Float(RemoveCommas(chars))

\* form_s1_s3.py lines 37-85. The keys that only keyword searches fill
\* (offering_type, is_atm, is_shelf, use_of_proceeds) are left out.
ParseS1S3(raw) ==
    LET amounts == AllValues([i \in 1..Len(raw.dollars) |->
                                 ParseDollarAmount(raw.dollars[i])])
        shares == AllValues([i \in 1..Len(raw.shares) |->
                                ParseShares(raw.shares[i])])
    IN  IF amounts.outcome = "raised" THEN amounts
        ELSE IF shares.outcome = "raised" THEN shares
        ELSE Returned(Pair(raw.text,
                           [max_offering_amount |-> MaxOrNone(amounts.value),
                            proposed_shares |-> MaxOrNone(shares.value)]))

\* form_8k.py lines 44-73
Parse8k(raw) ==
    Returned(Pair(raw.text,
                  [items |-> List(raw.items),
                   has_bullish_items |-> raw.items \cap BULLISH_ITEMS # {},
                   has_bearish_items |-> raw.items \cap BEARISH_ITEMS # {}]))

\* form_4.py lines 40-45
SafeFloat(chars) == FloatOrNone(RemoveCommas(chars)).value

\* form_4.py lines 95-109: one non-derivative transaction
Transaction(txn) ==
    [code |-> txn.code, shares |-> SafeFloat(txn.shares),
     price_per_share |-> SafeFloat(txn.price)]

\* form_4.py lines 48-139: the document parses as XML, or ET.ParseError is
\* caught and the text is searched for "Purchase", then for "Sale"
ParseForm4(raw) ==
    IF raw.markup = "xml"
    THEN Returned(Pair("summary",
             [transactions |-> [i \in 1..Len(raw.transactions) |->
                                   Transaction(raw.transactions[i])],
              transaction_type |->
                  IF raw.transactions = <<>> THEN None
                  ELSE Str(raw.transactions[1].code)]))
    ELSE Returned(Pair(raw.text,
             IF "Purchase" \in raw.words
             THEN [parse_error |-> TRUE, transaction_type |-> Str("P")]
             ELSE IF "Sale" \in raw.words
             THEN [parse_error |-> TRUE, transaction_type |-> Str("S")]
             ELSE [parse_error |-> TRUE]))

\* form_13d_13g.py lines 37-40: the largest percentage in (0, 100], in tenths
OwnershipPct(percentages) ==
    LET kept == {p \in percentages : 0 < p /\ p <= 1000}
    IN  IF kept = {} THEN None
        ELSE PyFloat(CHOOSE p \in kept : \A q \in kept : q <= p)

\* a labelling that looks for the passive language first
StrategyPassiveFirst(is_13d, has_activism, has_passive) ==
    IF has_passive THEN "passive"
    ELSE IF is_13d /\ has_activism THEN "activist"
    ELSE IF is_13d THEN "potentially activist"
    ELSE "passive"

\* form_13d_13g.py lines 55-62
Strategy(is_13d, has_activism, has_passive) ==
    IF is_13d /\ has_activism THEN "activist"
    ELSE IF has_passive THEN "passive"
    ELSE IF is_13d THEN "potentially activist"
    ELSE "passive"

\* form_13d_13g.py lines 23-77
Parse13d13g(raw) ==
    Returned(Pair(raw.text,
        [form_subtype |-> Str(IF raw.is_13d THEN "13D" ELSE "13G"),
         ownership_pct |-> OwnershipPct(raw.percentages),
         strategy |-> Str(Strategy(raw.is_13d, raw.has_activism, raw.has_passive)),
         has_activism_language |-> raw.has_activism]))

\* form_10q.py lines 43-48 and 70-80: the number of the first match of a
\* metric, None without a match or when it is no number
ExtractNumber(match) ==
    IF match = <<>> THEN None ELSE FloatOrNone(RemoveCommas(match[1])).value

\* form_10q.py lines 51-117. The keys of the inline tags are left out.
Parse10q(raw) ==
    Returned(Pair(raw.text,
        [revenue |-> ExtractNumber(raw.revenue),
         eps |-> ExtractNumber(raw.eps),
         sentiment_score |->
             PyInt(Cardinality(raw.positive) - Cardinality(raw.risk))]))

\* filing_fetcher.py lines 158-162: the markup is stripped
ParseGeneric(raw, form_type) ==
    Returned(Pair(raw.text, [form_type |-> form_type]))

\* filing_fetcher.py lines 148-158: the parser of a base form
Route(base_form) ==
    CASE base_form \in {"8-K"} -> "parse_8k"
      [] base_form = "4" -> "parse_form4"
      [] base_form \in {"S-1", "S-3", "424B2", "424B3", "424B4", "424B5"} ->
            "parse_s1_s3"
      [] base_form \in {"SC 13D", "SC 13G", "13D", "13G", "SCHEDULE 13G",
                        "SCHEDULE 13D"} -> "parse_13d_13g"
      [] base_form = "10-Q" -> "parse_10q"
      [] OTHER -> "generic"

\* the call of the parser of this name
Parse(parser, raw, form_type) ==
    CASE parser = "parse_8k" -> Parse8k(raw)
      [] parser = "parse_form4" -> ParseForm4(raw)
      [] parser = "parse_s1_s3" -> ParseS1S3(raw)
      [] parser = "parse_13d_13g" -> Parse13d13g(raw)
      [] parser = "parse_10q" -> Parse10q(raw)
      [] OTHER -> ParseGeneric(raw, form_type)

\* filing_fetcher.py lines 134-162: ("", {}) without a document or when its
\* download raises, and otherwise what the parser of the base form returns
\* or raises
FetchFilingDocument(download, form_type) ==
    IF download.outcome # "ok" THEN Returned(Pair("", EmptyDict))
    ELSE Parse(Route(BaseForm(form_type)), download.raw, form_type)

\* a document without a match for any pattern
Blank ==
    [markup |-> "html", text |-> "text", words |-> {}, transactions |-> <<>>,
     items |-> {}, dollars |-> <<>>, shares |-> <<>>,
     is_13d |-> FALSE, percentages |-> {}, has_activism |-> FALSE,
     has_passive |-> FALSE,
     revenue |-> <<>>, eps |-> <<>>, positive |-> {}, risk |-> {}]

\* what [\d,]+(?:\.\d+)? can capture, and what [\d.]+ can
CommaNumbers == {<<"1">>, <<"1", ",", "1">>, <<"1", ".", "1">>, <<",">>}
DotNumbers == {<<"1">>, <<"1", ".", "1">>, <<".">>}

\* documents: each varies the matches of the patterns of one parser
RawDocuments ==
    {[Blank EXCEPT !.words = w] : w \in SUBSET {"Purchase", "Sale"}}
    \cup {[Blank EXCEPT !.markup = "xml", !.transactions = t] :
             t \in {<<>>,
                    <<[code |-> "P", shares |-> <<"1", ",", "1">>, price |-> <<"1">>]>>,
                    <<[code |-> "S", shares |-> <<",">>, price |-> <<>>],
                      [code |-> "P", shares |-> <<"1">>, price |-> <<"1", ".", "1">>]>>}}
    \cup {[Blank EXCEPT !.items = i] :
             i \in {{"1.01", "9.01"}, {"5.02"}, {"1.01", "5.02"}}}
    \cup {[Blank EXCEPT !.dollars = d, !.shares = s] :
             d \in {<<>>} \cup {<<[group |-> g, multiplier |-> m]>> :
                                   g \in CommaNumbers, m \in {"", "thousand"}},
             s \in {<<>>, <<<<"1", ",", "1">>, <<"1">>>>} \cup
                   {<<g>> : g \in CommaNumbers}}
    \cup {[Blank EXCEPT !.is_13d = d, !.percentages = p, !.has_activism = a,
                        !.has_passive = v] :
             d \in BOOLEAN, p \in {{}, {49, 51}, {0, 1500}}, a \in BOOLEAN,
             v \in BOOLEAN}
    \cup {[Blank EXCEPT !.revenue = r, !.eps = e, !.positive = p, !.risk = k] :
             r \in {<<>>} \cup {<<g>> : g \in CommaNumbers},
             e \in {<<>>} \cup {<<g>> : g \in DotNumbers},
             p \in {{}, {"growth"}}, k \in {{}, {"inflation", "tariff"}}}

\* filing_fetcher.py lines 134-142: no document link, a download that
\* raises, or the document
Downloads ==
    {[outcome |-> "not_found"], [outcome |-> "raised"]}
        \cup {[outcome |-> "ok", raw |-> r] : r \in RawDocuments}

InitFetch ==
    /\ PipelineIdle
    /\ downloads = NoDownloads
    /\ call \in {Called("fetch_filing_document",
                        [download |-> d, form_type |-> f]) :
                    d \in Downloads, f \in FormTypes}

FetchFilingDocumentEnds ==
    /\ call.fn = "fetch_filing_document"
    /\ call.pc = "called"
    /\ call' = Done(FetchFilingDocument(call.input.download, call.input.form_type))
    /\ UNCHANGED <<pipeline, downloads, manager>>

SpecFetch == InitFetch /\ [][FetchFilingDocumentEnds]_vars

---------------------------------------------------------------------------
(* routers/ws.py: connect, disconnect, broadcast *)

\* the manager with this active set and this frame for call b
Manager(active, b, frame) ==
    [manager EXCEPT !.active = active, !.frames[b] = frame]

\* line 32, the iterator of self.active asked for its next element. A set
\* whose size is not the size it had when the iteration began raises
\* RuntimeError, which leaves broadcast. A set of the same size and the same
\* elements yields the elements not yet visited, then ends. A set of the same
\* size and other elements (one connected, one gone) yields any of its
\* elements not yet visited, or ends. Lines 37-38 run at the end of the loop.
IterNext(b, frame, active) ==
    IF Cardinality(active) # frame.used
    THEN manager' = Manager(active, b, [frame EXCEPT !.pc = "raised"])
    ELSE \/ \E ws \in active \ frame.visited :
               manager' = Manager(active, b,
                                  [frame EXCEPT !.pc = "sending", !.ws = ws,
                                                !.visited = @ \cup {ws}])
         \/ /\ active = frame.snapshot => active \subseteq frame.visited
            /\ manager' = Manager(active \ frame.dead, b,
                                  [frame EXCEPT !.pc = "returned", !.ws = 0])

\* lines 21-24 and 46: a client connects; its socket joins the active set
Connect(ws) ==
    /\ manager.sockets[ws] = "new"
    /\ manager' = [manager EXCEPT !.sockets[ws] = "open",
                                  !.active = @ \cup {ws}]
    /\ UNCHANGED <<pipeline, downloads, call>>

\* lines 26-28 and 50-52: the client has gone; receive_text raises
\* WebSocketDisconnect and the socket is discarded
Disconnect(ws) ==
    /\ manager.sockets[ws] = "open"
    /\ manager' = [manager EXCEPT !.sockets[ws] = "closed",
                                  !.active = @ \ {ws}]
    /\ UNCHANGED <<pipeline, downloads, call>>

\* lines 30-32: a task of the pipeline calls broadcast; the iteration begins
BroadcastCall(b) ==
    /\ manager.frames[b].pc = "idle"
    /\ IterNext(b, [IdleBroadcast EXCEPT !.used = Cardinality(manager.active),
                                         !.snapshot = manager.active],
                manager.active)
    /\ UNCHANGED <<pipeline, downloads, call>>

\* line 34: send_json returns, the subscriber has the message
SendReturns(b) ==
    /\ manager.frames[b].pc = "sending"
    /\ IterNext(b, [manager.frames[b] EXCEPT !.received = @ \cup {manager.frames[b].ws}],
                manager.active)
    /\ UNCHANGED <<pipeline, downloads, call>>

\* lines 34-36: send_json raises, the subscriber is noted as dead
SendRaises(b) ==
    /\ manager.frames[b].pc = "sending"
    /\ IterNext(b, [manager.frames[b] EXCEPT !.dead = @ \cup {manager.frames[b].ws}],
                manager.active)
    /\ UNCHANGED <<pipeline, downloads, call>>

InitBroadcast ==
    /\ PipelineIdle
    /\ downloads = NoDownloads
    /\ call = NoCall

BroadcastNext ==
    \/ \E ws \in Sockets : Connect(ws)
    \/ \E ws \in Sockets : Disconnect(ws)
    \/ \E b \in Broadcasts : BroadcastCall(b)
    \/ \E b \in Broadcasts : SendReturns(b)
    \/ \E b \in Broadcasts : SendRaises(b)

SpecBroadcast == InitBroadcast /\ [][BroadcastNext]_vars

---------------------------------------------------------------------------
(* services/filing_fetcher.py: _get_doc_url_from_index *)

\* the candidate links kept of an index page, at most
MaxLinks == 3

\* a candidate link (lines 56-71): its extension, whether its file name is
\* an R<digit> viewer file, whether its path has an xsl segment
Link(ext, viewer, xsl) == [ext |-> ext, viewer |-> viewer, xsl |-> xsl]

Links == {Link(e, v, x) : e \in {"htm", "xml"}, v \in BOOLEAN, x \in BOOLEAN}

\* the lists doc_links of an index page, the empty one included
DocLinks == UNION {[1..n -> Links] : n \in 0..MaxLinks}

\* the position of the first link of the list that is one of the links
\* wanted, 0 when none is
FirstLink(doc_links, wanted) ==
    LET passing == {i \in 1..Len(doc_links) : doc_links[i] \in wanted}
    IN  IF passing = {} THEN 0
        ELSE CHOOSE i \in passing : \A j \in passing : i <= j

\* lines 83-89: the test of the first loop
IsDocumentPage(link) == ~link.viewer /\ ~link.xsl /\ link.ext = "htm"

\* a second loop that keeps only .xml links that are no viewer file
IsSurvivingXml(link) == ~link.viewer /\ ~link.xsl /\ link.ext = "xml"

\* line 94: the test of the second loop
NotXsl(link) == ~link.xsl

\* lines 80-98: the position in doc_links of the link chosen
Best(doc_links) ==
    LET first == FirstLink(doc_links, {l \in Links : IsDocumentPage(l)})
        second == FirstLink(doc_links, {l \in Links : NotXsl(l)})
    IN  IF first # 0 THEN first
        ELSE IF second # 0 THEN second
        ELSE 1

\* lines 44-98: None when the index page cannot be downloaded or has no
\* candidate link, else the link chosen
GetDocUrlFromIndex(index) ==
    IF index.outcome = "raised" THEN None
    ELSE IF index.doc_links = <<>> THEN None
    ELSE [type |-> "link", position |-> Best(index.doc_links)]

InitIndex ==
    /\ PipelineIdle
    /\ downloads = NoDownloads
    /\ call \in {Called("_get_doc_url_from_index", i) :
                    i \in {[outcome |-> "raised", doc_links |-> <<>>]}
                          \cup {[outcome |-> "ok", doc_links |-> l] : l \in DocLinks}}

GetDocUrlFromIndexEnds ==
    /\ call.fn = "_get_doc_url_from_index"
    /\ call.pc = "called"
    /\ call' = Done(GetDocUrlFromIndex(call.input))
    /\ UNCHANGED <<pipeline, downloads, manager>>

SpecIndex == InitIndex /\ [][GetDocUrlFromIndexEnds]_vars

---------------------------------------------------------------------------
(* services/ai_processor.py: _get_chunks and the requests of summarise_filing.
   A text is its number of words. *)

\* line 19
CHUNK_WORD_SIZE == 8000

\* the texts of the model have at most this many full chunks and a rest
MaxChunks == 3

WordCounts ==
    {CHUNK_WORD_SIZE * k + r :
        k \in 0..MaxChunks, r \in {0, 1, 4000, CHUNK_WORD_SIZE - 1}}

\* chunks of one size: the words are shared out evenly
GetChunksEven(words) ==
    LET n == (words + CHUNK_WORD_SIZE - 1) \div CHUNK_WORD_SIZE
    IN  [i \in 1..n |-> (words + n - 1) \div n]

\* lines 45-51: the numbers of words of the chunks, words[i:i + 8000] for
\* i = 0, 8000, ...
GetChunks(words) ==
    LET n == (words + CHUNK_WORD_SIZE - 1) \div CHUNK_WORD_SIZE
    IN  [i \in 1..n |->
            IF i * CHUNK_WORD_SIZE <= words THEN CHUNK_WORD_SIZE
            ELSE words - (i - 1) * CHUNK_WORD_SIZE]

\* a request to the generative service: its prompt
ChunkRequest(i) == [prompt |-> "chunk", chunk |-> i]
FinalRequest == [prompt |-> "consolidation", chunk |-> 0]
SingleRequest == [prompt |-> "single", chunk |-> 0]

\* a summarise_filing that returns the last chunk summary unconsolidated
AfterReplyUnconsolidated(request, chunks) ==
    IF request.prompt = "chunk" /\ request.chunk < Len(chunks)
    THEN ChunkRequest(request.chunk + 1)
    ELSE None

\* lines 191-205: the request that follows the reply to this one: the next
\* chunk, the consolidation after the last chunk, none after the
\* consolidation or the single request
AfterReply(request, chunks) ==
    IF request.prompt = "chunk" /\ request.chunk < Len(chunks)
    THEN ChunkRequest(request.chunk + 1)
    ELSE IF request.prompt = "chunk" THEN FinalRequest
    ELSE None

\* lines 185-198, 207-211: the first request of a call
FirstRequest(words) ==
    IF words > CHUNK_WORD_SIZE THEN ChunkRequest(1) ELSE SingleRequest

\* lines 184-211: summarise_filing is called and awaits its first request
SummariseFilingCall ==
    /\ call.fn = "summarise_filing"
    /\ call.pc = "called"
    /\ call.input \in WordCounts
    /\ call' = [fn |-> call.fn, pc |-> "awaiting", input |-> call.input,
                chunks |-> IF call.input > CHUNK_WORD_SIZE
                           THEN GetChunks(call.input) ELSE <<>>,
                requests |-> <<FirstRequest(call.input)>>, replies |-> 0]
    /\ UNCHANGED <<pipeline, downloads, manager>>

\* lines 198-214: _call_ollama returns; the next request is issued, or the
\* reply to the last one is parsed and validated
RequestReturns(reply) ==
    /\ call.fn = "summarise_filing"
    /\ call.pc = "awaiting"
    /\ LET next == AfterReply(call.requests[Len(call.requests)], call.chunks)
       IN  IF next = None
           THEN call' = [call EXCEPT !.pc = "done", !.replies = @ + 1]
                           @@ [result |-> SummariseFiling(reply)]
           ELSE call' = [call EXCEPT !.requests = Append(@, next),
                                     !.replies = @ + 1]
    /\ UNCHANGED <<pipeline, downloads, manager>>

\* lines 146-164: the request fails (no connection, timeout, error status);
\* the exception leaves summarise_filing
RequestRaises ==
    /\ call.fn = "summarise_filing"
    /\ call.pc = "awaiting"
    /\ call' = [call EXCEPT !.pc = "done"] @@ [result |-> Raised("HTTPError")]
    /\ UNCHANGED <<pipeline, downloads, manager>>

InitRequests ==
    /\ PipelineIdle
    /\ downloads = NoDownloads
    /\ call \in {Called("summarise_filing", words) : words \in WordCounts}

RequestsNext ==
    \/ SummariseFilingCall
    \/ \E reply \in PipelineReplies \ {Unreachable} : RequestReturns(reply)
    \/ RequestRaises

SpecRequests == InitRequests /\ [][RequestsNext]_vars

---------------------------------------------------------------------------
(* Properties *)

RowsFor(a) == {r \in BagToSet(filings) : r.accession_number = a}

RECURSIVE Copies(_, _)
\* number of copies in the bag of the elements of the set
Copies(bag, elements) ==
    IF elements = {} THEN 0
    ELSE LET e == CHOOSE x \in elements : TRUE
         IN  CopiesIn(e, bag) + Copies(bag, elements \ {e})

EventsOf(a, type) ==
    {e \in BagToSet(events) : e.type = type /\ e.accession_number = a}

NewFilingEvents(a) == Copies(events, EventsOf(a, "new_filing"))

\* the filing is persisted and published
Published(a) == RowExists(a) /\ NewFilingEvents(a) >= 1

\* indexes of the entries of es that carry accession number a
Places(es, a) == {i \in 1..Len(es) : es[i].accession_number = a}

Min(S) == CHOOSE x \in S : \A y \in S : x <= y
Max(S) == CHOOSE x \in S : \A y \in S : x >= y

RunningTasks == {t \in TaskIds : tasks[t].pc \in Running}

\* C1: over any sequence of poll cycles and feeds, the filings table never
\* holds two rows with the same accession number, and at most one new_filing
\* event is published per accession number.
C1_OneRowOneEvent ==
    \A a \in Acc :
        /\ Cardinality(RowsFor(a)) <= 1
        /\ \A r \in RowsFor(a) : CopiesIn(r, filings) = 1
        /\ NewFilingEvents(a) <= 1

\* a published filing is listed again, twice in one batch, in a later cycle
C1_Witness ==
    /\ dedup[1].pc = "commit"
    /\ \E a \in Acc :
          /\ Published(a)
          /\ Cardinality(Places(dedup[1].entries, a)) >= 2

\* the filing has a task that _dedup's result has just created
Reserved(a) ==
    \E t \in TaskIds : AccOf(t) = a /\ tasks[t].pc = "wait_sem"

\* the filing's task ended without a row: no document text, or a database
\* call raised
Dropped(a) ==
    \E t \in TaskIds : AccOf(t) = a /\ tasks[t].pc \in {"no_text", "raised"}

C3_FetchStartedOnce ==
    \A a \in Acc : CopiesIn(a, fetches) <= 1

\* a filing whose processing failed after its fetch is listed in a later
\* cycle and _dedup has filtered it out
C3_Witness ==
    /\ dedup[1].pc = "commit"
    /\ \E a \in AccsOf(dedup[1].entries) :
          /\ CopiesIn(a, fetches) = 1
          /\ ~RowExists(a)
          /\ a \notin AccsOf(dedup[1].new_entries)

\* C4: the list that _dedup returns (new_entries at its commit) holds exactly
\* one entry for each distinct accession number of the batch that the ledger
\* does not hold and none for one it holds, and once _dedup has returned the
\* ledger holds every returned accession number.
C4_ReserveNew ==
    /\ dedup[1].pc = "commit" =>
          LET new == dedup[1].new_entries
          IN  /\ AccsOf(new) = AccsOf(dedup[1].entries) \ seen_filings
              /\ \A a \in AccsOf(new) : Cardinality(Places(new, a)) = 1
    /\ loop = "gather" => \A t \in TaskIds : AccOf(t) \in seen_filings

\* a batch with a repeated number and a number of an earlier call's result
C4_Witness ==
    /\ dedup[1].pc = "commit"
    /\ dedup[1].new_entries # <<>>
    /\ AccsOf(dedup[1].entries) \cap seen_filings # {}
    /\ \E a \in Acc : Cardinality(Places(dedup[1].entries, a)) >= 2

\* C5: of two calls of _dedup that overlap in time on batches sharing an
\* accession number, at most one returns that number as new.
C5_OneCallReturnsId ==
    \A c \in Callers, d \in Callers :
        (c # d /\ dedup[c].pc = "returned" /\ dedup[d].pc = "returned")
            => AccsOf(dedup[c].new_entries) \cap AccsOf(dedup[d].new_entries) = {}

\* both calls selected before either committed; one returned the shared
\* number, the other raised at its commit
C5_Witness ==
    \E c \in Callers, d \in Callers :
        /\ dedup[c].pc = "returned"
        /\ dedup[d].pc = "raised"
        /\ AccsOf(dedup[c].new_entries) \cap AccsOf(dedup[d].new_entries) # {}

\* C6, as claimed: of the entries of one batch with the same accession
\* number, _dedup returns the last one.
C6_LastSeenWins ==
    \A c \in Callers :
        dedup[c].pc = "commit" =>
            \A i \in 1..Len(dedup[c].new_entries) :
                LET e == dedup[c].new_entries[i]
                IN  e = dedup[c].entries[Max(Places(dedup[c].entries, e.accession_number))]

\* C6, amended: of the entries of one batch with the same accession number,
\* _dedup returns the first one.
C6_FirstSeenWins ==
    \A c \in Callers :
        dedup[c].pc = "commit" =>
            \A i \in 1..Len(dedup[c].new_entries) :
                LET e == dedup[c].new_entries[i]
                IN  e = dedup[c].entries[Min(Places(dedup[c].entries, e.accession_number))]

\* _dedup is about to return an entry whose number the batch lists twice
C6_Witness ==
    /\ dedup[1].pc = "commit"
    /\ \E a \in AccsOf(dedup[1].new_entries) :
          Cardinality(Places(dedup[1].entries, a)) >= 2

\* C7: the ledger holds the accession number of every task from its creation
\* on, so before its fetch begins, and of every filing whose fetch was ever
\* started, whatever became of its processing.
C7_LedgerBeforeFetch ==
    /\ \A t \in TaskIds : AccOf(t) \in seen_filings
    /\ \A a \in BagToSet(fetches) : a \in seen_filings

\* one task failed and one was cancelled, both after their fetch had started
C7_Witness ==
    \E t \in TaskIds, u \in TaskIds :
        /\ tasks[t].pc = "cancelled"
        /\ tasks[u].pc \in {"no_text", "raised"}
        /\ {AccOf(t), AccOf(u)} \subseteq BagToSet(fetches) \cap seen_filings

\* C8: the in-flight guard set holds exactly the accession numbers of the
\* tasks that are inside the try block of _process_filing.
C8_GuardSetIsRunning ==
    currently_processing = {AccOf(t) : t \in RunningTasks}

\* a task has left by an exception while another one is still running
C8_Witness ==
    \E t \in TaskIds, u \in TaskIds :
        /\ tasks[t].pc = "raised"
        /\ tasks[u].pc \in Running
        /\ currently_processing = {AccOf(u)}

\* C9: two tasks for the same accession number are never both past the
\* guard, and the entry of a task that is past it stays in the guard set.
C9_GuardExcludes ==
    /\ \A t \in RunningTasks, u \in RunningTasks : AccOf(t) = AccOf(u) => t = u
    /\ \A t \in RunningTasks : AccOf(t) \in currently_processing

\* a task was turned away while the task of the same filing is running
C9_Witness ==
    \E t \in TaskIds, u \in TaskIds :
        /\ AccOf(t) = AccOf(u)
        /\ tasks[t].pc \in Running
        /\ tasks[u].pc = "skipped"

\* C10: at most 3 tasks of a cycle are inside _process_filing at a time.
C10_AtMostThreeInside ==
    Cardinality(RunningTasks) <= 3

\* three tasks are inside and a fourth waits for the semaphore
C10_Witness ==
    /\ Cardinality(RunningTasks) = 3
    /\ \E t \in TaskIds : tasks[t].pc = "wait_sem"

\* C11: any two download requests, whichever callers issue them, are at
\* least _INTER_REQUEST_DELAY (100 ms) apart: no two requests are sent at
\* the same instant.
C11_RequestsSpaced == downloads.sent <= 1

\* C12: at most 8 calls of _download_text hold a download slot at any time,
\* over all callers, and every slot comes back when its download ends, by a
\* response or by an exception: the free slots and the held ones add up to 8.
C12_AtMostEightDownloads ==
    /\ Holding <= DownloadSemaphoreValue
    /\ downloads.value = DownloadSemaphoreValue - Holding

\* all slots are held while a caller waits, after a failed download gave its
\* slot back
C12_Witness ==
    /\ Holding = DownloadSemaphoreValue
    /\ downloads.waiting >= 1
    /\ downloads.raised >= 1

\* C13: when the task of one filing raises, every other task of the cycle
\* still runs to its own end (none is cancelled or left behind when gather
\* returns), and the cycle ends normally: the loop reaches its sleep.
C13_SiblingsComplete ==
    /\ [][(loop = "gather" /\ loop' = "sleep") =>
             \A t \in TaskIds : tasks[t].pc \in Ended \ {"cancelled"}]_vars
    /\ \A t \in 1..MaxBatch :
          (t \in TaskIds /\ tasks[t].pc = "raised") ~> (loop = "sleep")

\* one task of the gather has raised and another has published its filing
C13_Witness ==
    /\ loop = "gather"
    /\ \E t \in TaskIds, u \in TaskIds :
          /\ tasks[t].pc = "raised"
          /\ tasks[u].pc = "published"

\* C14: without an external cancellation the polling loop never ends:
\* whatever was raised while polling, deduplicating or processing, every
\* cycle reaches the sleep, and every sleep is followed by the next poll.
C14_LoopNeverEnds ==
    /\ [](loop \in {"poll", "dedup", "gather", "sleep"})
    /\ (loop # "sleep") ~> (loop = "sleep")
    /\ (loop = "sleep") ~> (loop = "poll")

\* the next cycle starts after a cycle in which a task raised at its first
\* database call: its filing is reserved and was never fetched
C14_Witness ==
    /\ loop = "poll"
    /\ tasks = <<>>
    /\ \E a \in seen_filings : CopiesIn(a, fetches) = 0
    /\ \E a \in seen_filings : RowExists(a)

\* the filing is in the filings table and in a new_filing event, both with
\* the heuristic score of pre_classify as impact and the fallback reason
HeuristicPublished(a) ==
    /\ \E r \in RowsFor(a) :
          /\ r.signal = HeuristicImpact(a).value
          /\ r.signal_reasons = "heuristic"
    /\ \E e \in EventsOf(a, "new_filing") :
          /\ e.impact = HeuristicImpact(a).value
          /\ e.reasons = "heuristic"

\* C15: when the call of the generative service fails or times out for a
\* filing whose text was obtained, the task goes on to the commit, and the
\* filing is then persisted and published as new_filing with the heuristic
\* score of pre_classify as impact and the heuristic-fallback reason (a task
\* whose database call raises is the one exception: it ends raised).
C15_FallbackPublished ==
    /\ [][\A t \in TaskIds :
             tasks[t].pc = "summarise" => tasks'[t].pc \in {"summarise", "commit"}]_vars
    /\ [](\A t \in TaskIds :
             (tasks[t].pc = "published" /\ tasks[t].reasons = "heuristic")
                => HeuristicPublished(AccOf(t)))
    /\ \A a \in Acc :
          (\E t \in TaskIds : /\ AccOf(t) = a
                              /\ tasks[t].pc = "commit"
                              /\ tasks[t].reasons = "heuristic")
          ~> (\/ HeuristicPublished(a)
              \/ \E t \in TaskIds : AccOf(t) = a /\ tasks[t].pc = "raised")

\* a task has published its filing with a heuristic score other than 0
C15_Witness ==
    \E t \in TaskIds :
       /\ tasks[t].pc = "published"
       /\ tasks[t].reasons = "heuristic"
       /\ tasks[t].impact # PyInt(0)
       /\ HeuristicPublished(AccOf(t))

\* number of rows of the filings table for the accession number
RowCount(a) == Copies(filings, RowsFor(a))

ProcessingEvents(a) == Copies(events, EventsOf(a, "filing_processing"))

\* the tasks that ran with the generative service failing and published
FallbackPublishers ==
    {t \in TaskIds : tasks[t].pc = "published" /\ tasks[t].reasons = "heuristic"}

\* C16 as stated: a new entry processed end to end with the generative
\* service unreachable leaves exactly one row and exactly one broadcast
\* event for that entry.
C16_OneRowOneBroadcast ==
    \A t \in FallbackPublishers :
       /\ RowCount(AccOf(t)) = 1
       /\ NewFilingEvents(AccOf(t)) + ProcessingEvents(AccOf(t)) = 1

\* C16, amended: a new entry processed end to end with the generative
\* service unreachable leaves exactly one row and exactly two broadcast
\* events for that entry: one filing_processing and one new_filing.
C16_OneRowTwoBroadcasts ==
    \A t \in FallbackPublishers :
       /\ RowCount(AccOf(t)) = 1
       /\ NewFilingEvents(AccOf(t)) = 1
       /\ ProcessingEvents(AccOf(t)) = 1

\* the only entry of the only feed so far has been processed on the fallback
C16_Witness ==
    /\ Cardinality(seen_filings) = 1
    /\ \E t \in FallbackPublishers :
          /\ Len(tasks) = 1
          /\ RowCount(AccOf(t)) = 1
          /\ NewFilingEvents(AccOf(t)) = 1

\* C17: for every reply text of the generative service (a JSON object whose
\* impact is an integer, a float, a label or missing; fenced or embedded
\* JSON; a JSON value that is not an object; plain prose) summarise_filing
\* returns a result whose impact is an integer in [-100, 100].
C17_ImpactInRange ==
    (call.fn = "summarise_filing" /\ call.pc = "done") =>
        /\ call.result.outcome = "returned"
        /\ call.result.value.impact.type = "int"
        /\ call.result.value.impact.n \in -100..100

\* C18: for every segment and every fields map, also one with missing or
\* null values, pre_classify returns an integer in [-100, 100] and never
\* raises.
C18_ScoreInRange ==
    (call.fn = "pre_classify" /\ call.pc = "done") =>
        /\ call.result.outcome = "returned"
        /\ call.result.value.type = "int"
        /\ call.result.value.n \in -100..100

\* the value is an integer in [-100, 100]
IsImpact(v) == v.type = "int" /\ v.n \in -100..100

\* C19: every row of the filings table and every new_filing event carries an
\* impact that is an integer in [-100, 100], whether it came from the
\* generative service or from the heuristic fallback.
C19_ImpactsInRange ==
    /\ \A r \in BagToSet(filings) : IsImpact(r.signal)
    /\ \A e \in BagToSet(events) : e.type = "new_filing" => IsImpact(e.impact)

\* a filing published with the clamped impact of a reply (250 in the reply)
\* and one published with its heuristic score
C19_Witness ==
    /\ \E e \in BagToSet(events) :
          /\ e.type = "new_filing"
          /\ e.reasons = "slm"
          /\ e.impact = PyInt(100)
    /\ \E r \in BagToSet(filings) :
          /\ r.signal_reasons = "heuristic"
          /\ r.signal = HeuristicImpact(r.accession_number).value

\* C20: at every point, also after a failure or an external cancellation at
\* any suspension point, a filing is either both persisted and published as
\* new_filing or not in the filings table at all.
C20_PersistedIsPublished ==
    \A a \in Acc : RowExists(a) => NewFilingEvents(a) >= 1

\* C21: after shutdown is requested no new poll cycle starts and the tasks
\* of the current cycle end: the cancellation ends the loop, leaves no task
\* running and the in-flight guard set empty, and nothing runs afterwards.
C21_ShutdownStopsAll ==
    /\ [][Cancel => /\ loop' = "cancelled"
                    /\ \A t \in 1..Len(tasks') : tasks'[t].pc \in Ended
                    /\ currently_processing' = {}]_vars
    /\ [][loop = "cancelled" => (loop' = "cancelled" /\ tasks' = tasks)]_vars

\* shutdown came while tasks of the cycle were running: they were cancelled
C21_Witness ==
    /\ loop = "cancelled"
    /\ currently_processing = {}
    /\ \E t \in TaskIds, u \in TaskIds :
          /\ tasks[t].pc = "cancelled"
          /\ tasks[u].pc = "published"

\* the tasks of the filing that have issued the classification request, or
\* are past it
Classifying(a) ==
    {t \in TaskIds : /\ AccOf(t) = a
                     /\ tasks[t].pc \in {"summarise", "commit", "refresh", "published"}}

\* C22: a filing_processing event is published for a filing once, after its
\* fetch has begun and before its classification request is issued, and
\* before the new_filing event of the same filing.
C22_ProcessingEventFirst ==
    \A a \in Acc :
       /\ ProcessingEvents(a) <= 1
       /\ ProcessingEvents(a) >= 1 => CopiesIn(a, fetches) >= 1
       /\ Classifying(a) # {} => ProcessingEvents(a) = 1
       /\ NewFilingEvents(a) >= 1 => ProcessingEvents(a) = 1

\* the classification request of a filing is out: its filing_processing
\* event is published, its new_filing event is not
C22_Witness ==
    \E t \in TaskIds :
       /\ tasks[t].pc = "summarise"
       /\ ProcessingEvents(AccOf(t)) = 1
       /\ NewFilingEvents(AccOf(t)) = 0

\* the order of the suspension points of _process_filing
StepsInOrder ==
    {<<"wait_sem", "check_existing">>, <<"wait_sem", "skipped">>,
     <<"check_existing", "fetch">>, <<"check_existing", "existing">>,
     <<"check_existing", "raised">>,
     <<"fetch", "summarise">>, <<"fetch", "no_text">>, <<"fetch", "raised">>,
     <<"summarise", "commit">>,
     <<"commit", "refresh">>, <<"commit", "raised">>,
     <<"refresh", "published">>, <<"refresh", "raised">>}

\* C23: within one filing the steps run in the order fetch and parse,
\* classify, persist, broadcast: a row is committed only with the outcome of
\* the classification (its result or the fallback), and new_filing is
\* published only after the row is committed. Filings of one cycle end in
\* any order.
C23_StepsInOrder ==
    /\ [][\A t \in TaskIds :
             (Len(tasks') = Len(tasks) /\ tasks'[t].pc # tasks[t].pc) =>
                \/ <<tasks[t].pc, tasks'[t].pc>> \in StepsInOrder
                \/ tasks[t].pc \notin Ended /\ tasks'[t].pc = "cancelled"]_vars
    /\ [](\A r \in BagToSet(filings) :
             /\ r.signal_reasons \in {"slm", "heuristic"}
             /\ r.signal.type # "missing"
             /\ CopiesIn(r.accession_number, fetches) >= 1)
    /\ [](\A a \in Acc : NewFilingEvents(a) >= 1 => RowExists(a))

\* the second filing of the cycle is published while the first is still
\* being fetched
C23_Witness ==
    /\ Len(tasks) = 2
    /\ tasks[1].pc = "fetch"
    /\ tasks[2].pc = "published"
    /\ RowExists(AccOf(2))
    /\ NewFilingEvents(AccOf(2)) = 1


\* C27: when the ledger write of a cycle fails, only the filing concerned
\* loses its task: the cycle still starts a task for every other new filing
\* (at least all but one of the new entries), and the loop goes on.
C27_LedgerFailureAbortsOneTask ==
    [][(loop = "dedup" /\ dedup[1].pc = "commit" /\ ~LoopDedupReturn
          /\ loop' # "cancelled") =>
          /\ loop' \in {"gather", "sleep"}
          /\ Len(tasks') >= Len(dedup[1].new_entries) - 1]_vars


\* a fields map as parse_13d_13g builds it (form_13d_13g.py lines 33-40,
\* 55-62): form_subtype and strategy are strings, ownership_pct a number or
\* None
WhaleFields(d) ==
    /\ d.form_subtype.type = "str"
    /\ d.strategy.type = "str"
    /\ d.ownership_pct.type \in {"None", "int", "float"}

\* C30: for a whale filing the score is 80 exactly when the subtype is 13D
\* and the strategy is "activist", 60 for every other 13D (strategy
\* "potentially activist" or "passive"), 40 for a filing that is not a 13D
\* with an ownership above 5 percent, and 0 otherwise.
C30_WhaleScores ==
    (/\ call.fn = "pre_classify"
     /\ call.pc = "done"
     /\ call.input.segment = "whale"
     /\ WhaleFields(call.input.parsed_data)) =>
        LET d == call.input.parsed_data
            is13D == d.form_subtype.s = "13D"
            over5 == /\ d.ownership_pct.type \in {"int", "float"}
                     /\ IF d.ownership_pct.type = "int"
                        THEN d.ownership_pct.n > 5
                        ELSE d.ownership_pct.n > 50
        IN  call.result =
               Returned(PyInt(IF is13D /\ d.strategy.s = "activist" THEN 80
                              ELSE IF is13D THEN 60
                              ELSE IF over5 THEN 40
                              ELSE 0))


\* the call of pre_classify has ended, for this segment
Classified(segment) ==
    /\ call.fn = "pre_classify"
    /\ call.pc = "done"
    /\ call.input.segment = segment

Normalized ==
    /\ call.fn = "_poll_once"
    /\ call.pc = "done"
    /\ call.result # None

\* C25: the ticker of a normalized filing is the entry of the table loaded
\* at startup for the company id of the filing when the table has one, and
\* no ticker (the placeholder) when it has none, as when the load failed.
C25_TickerFromTable ==
    Normalized =>
        LET number == call.input.entry.cik.number
            loaded == call.input.response.ok
                        /\ number \in call.input.response.companies
        IN  call.result.ticker =
               IF loaded THEN TickerOf(number) ELSE Str("...")


\* fetch_filing_document has ended for a document that was downloaded
Fetched ==
    /\ call.fn = "fetch_filing_document"
    /\ call.pc = "done"
    /\ call.input.download.outcome = "ok"

\* the dedicated parser of a segment's family of forms
FamilyParser(segment) ==
    CASE segment = "catalyst" -> "parse_8k"
      [] segment = "whale" -> "parse_13d_13g"
      [] segment = "pulse" -> "parse_10q"

\* C24: every accepted form type, amended or not, is dispatched to the
\* dedicated parser of its family: 8-K to the item-code parser, the 13D/13G
\* family to the large-ownership parser, 10-Q and 10-K to the periodic
\* parser; the fallback takes only the form types of no family.
C24_FamilyParser ==
    Fetched =>
        LET form_type == call.input.form_type
            segment == SegmentOf(form_type)
            parser == Route(BaseForm(form_type))
        IN  /\ segment # None =>
                 /\ parser = FamilyParser(segment.s)
                 /\ call.result =
                       Parse(FamilyParser(segment.s), call.input.download.raw,
                             form_type)
            /\ parser = "generic" => segment = None

\* C28: every parser variant, and with it fetch_filing_document, returns a
\* (text, fields) pair for every document and never raises.
C28_ParsersNeverRaise ==
    (call.fn = "fetch_filing_document" /\ call.pc = "done") =>
        /\ call.result.outcome = "returned"
        /\ call.result.value.type = "tuple"


\* C26: broadcast never fails its caller: without subscribers it completes,
\* and when the send to a subscriber fails, that subscriber is removed from
\* the active set while every other subscriber still receives the message.
C26_BroadcastNeverFails ==
    /\ [](\A b \in Broadcasts : manager.frames[b].pc # "raised")
    /\ [][\A b \in Broadcasts :
             (manager.frames[b].pc # "returned"
                 /\ manager'.frames[b].pc = "returned") =>
                LET frame == manager'.frames[b]
                IN  /\ frame.dead \cap manager'.active = {}
                    /\ frame.snapshot \ frame.dead \subseteq frame.received]_vars


\* the codes of the items of a fields map: those of its list, none when the
\* key is absent
ItemCodes(d) == IF d.items.type = "list" THEN d.items.elements ELSE {}

C32_BestLink ==
    (/\ call.fn = "_get_doc_url_from_index"
     /\ call.pc = "done"
     /\ call.input.doc_links # <<>>) =>
        LET doc_links == call.input.doc_links
            page == FirstLink(doc_links, {l \in Links : IsDocumentPage(l)})
            xml == FirstLink(doc_links, {l \in Links : IsSurvivingXml(l)})
        IN  call.result.position =
               IF page # 0 THEN page ELSE IF xml # 0 THEN xml ELSE 1


\* the filings with a task that ended because no text was obtained
WithoutText == {AccOf(t) : t \in {u \in TaskIds : tasks[u].pc = "no_text"}}

\* C33: when the index page or the document cannot be downloaded, the index
\* page has no candidate link or the text is empty, the task of the filing
\* ends without error (it returns, and gives back its slot and its guard
\* entry), no row is persisted, neither filing_processing nor new_filing is
\* published, and the download is not tried again.
C33_NoTextEndsQuietly ==
    /\ [][\A t \in TaskIds :
             (Len(tasks') = Len(tasks) /\ tasks[t].pc = "fetch"
                 /\ tasks'[t].pc \in Ended \ {"cancelled", "raised"}) =>
                /\ tasks'[t].pc = "no_text"
                /\ AccOf(t) \notin currently_processing'
                /\ sem' = sem + 1
                /\ filings' = filings
                /\ events' = events]_vars
    /\ [](\A a \in WithoutText :
             /\ RowCount(a) = 0
             /\ ProcessingEvents(a) = 0
             /\ NewFilingEvents(a) = 0
             /\ CopiesIn(a, fetches) = 1)
    /\ [](\A a \in Acc :
             (CopiesIn(a, fetches) >= 1 /\ RowCount(a) = 0
                 /\ ProcessingEvents(a) = 0) => CopiesIn(a, fetches) = 1)

\* one filing of the cycle ended without text and nothing of it is stored,
\* while another filing of the same cycle was published
C33_Witness ==
    \E t \in TaskIds, u \in TaskIds :
       /\ tasks[t].pc = "no_text"
       /\ RowCount(AccOf(t)) = 0
       /\ ProcessingEvents(AccOf(t)) = 0
       /\ CopiesIn(AccOf(t), fetches) = 1
       /\ tasks[u].pc = "published"


\* summarise_filing has begun: its requests are in the state
Requesting ==
    /\ call.fn = "summarise_filing"
    /\ call.pc \in {"awaiting", "done"}

\* the requests of a complete call for a text of this many words
AllRequests(words) ==
    IF words <= CHUNK_WORD_SIZE THEN <<SingleRequest>>
    ELSE [i \in 1..Len(GetChunks(words)) |-> ChunkRequest(i)] \o <<FinalRequest>>

\* C34: summarise_filing issues exactly one request for a text of at most
\* 8,000 words; otherwise one request per chunk, in chunk order and one at a
\* time, and then exactly one consolidation request after the last chunk
\* summary has returned; when a request fails, no further request is issued
\* and the call fails.
C34_RequestsInOrder ==
    /\ [](Requesting =>
            LET all == AllRequests(call.input)
            IN  /\ Len(call.requests) <= Len(all)
                /\ call.requests = SubSeq(all, 1, Len(call.requests))
                /\ Len(call.requests) - call.replies \in {0, 1}
                /\ (call.pc = "done" /\ call.result.outcome = "returned") =>
                      (call.requests = all /\ call.replies = Len(all))
                /\ (call.pc = "done" /\ call.replies < Len(all)) =>
                      call.result.outcome = "raised")
    /\ [][(Requesting /\ call.pc = "awaiting" /\ call'.pc = "done"
              /\ call'.replies = call.replies) =>
             (call'.requests = call.requests
                 /\ call'.result.outcome = "raised")]_vars

\* a text of three chunks: the three chunk requests and the consolidation
\* request were issued and answered
C34_Witness ==
    /\ Requesting
    /\ call.pc = "done"
    /\ call.input = 2 * CHUNK_WORD_SIZE + 1
    /\ call.requests = <<ChunkRequest(1), ChunkRequest(2), ChunkRequest(3), FinalRequest>>
    /\ call.replies = 4

\* C35 as stated: the chunks of a text above the threshold all have the same
\* number of words.
C35_EqualChunks ==
    (Requesting /\ call.input > CHUNK_WORD_SIZE) =>
        \A i, j \in 1..Len(call.chunks) : call.chunks[i] = call.chunks[j]

\* the sum of the numbers of a sequence
RECURSIVE Sum(_)
Sum(seq) == IF seq = <<>> THEN 0 ELSE Head(seq) + Sum(Tail(seq))

\* C35, amended: every chunk but the last has 8,000 words and the last has
\* the rest, between 1 and 8,000 words; together they are the text. The
\* chunks are equal-sized only when the number of words is a multiple of
\* 8,000.
C35_ChunksOfEightThousand ==
    (Requesting /\ call.input > CHUNK_WORD_SIZE) =>
        LET chunks == call.chunks
            n == Len(chunks)
        IN  /\ n >= 2
            /\ \A i \in 1..(n - 1) : chunks[i] = CHUNK_WORD_SIZE
            /\ chunks[n] \in 1..CHUNK_WORD_SIZE
            /\ Sum(chunks) = call.input
            /\ (\A i \in 1..n : chunks[i] = chunks[1])
                  <=> call.input % CHUNK_WORD_SIZE = 0

\* a text of 8,001 words was cut into a chunk of 8,000 words and one of 1
C35_Witness ==
    /\ Requesting
    /\ call.input = CHUNK_WORD_SIZE + 1
    /\ call.chunks = <<CHUNK_WORD_SIZE, 1>>


\* parse_13d_13g has parsed a downloaded document
Parsed13d13g ==
    /\ Fetched
    /\ Route(BaseForm(call.input.form_type)) = "parse_13d_13g"

\* C36: parse_13d_13g labels the strategy "activist" when the subtype is 13D
\* and activism language is present, "potentially activist" when the subtype
\* is 13D with neither activism nor passive language, and "passive" in every
\* other case.
C36_StrategyLabel ==
    Parsed13d13g =>
        LET raw == call.input.download.raw
            fields == call.result.value.fields
            is13D == fields.form_subtype = Str("13D")
        IN  /\ call.result.outcome = "returned"
            /\ is13D <=> raw.is_13d
            /\ fields.strategy =
                  Str(IF is13D /\ raw.has_activism THEN "activist"
                      ELSE IF is13D /\ ~raw.has_activism /\ ~raw.has_passive
                      THEN "potentially activist"
                      ELSE "passive")

\* a Schedule 13D with activism language and passive language is labelled
\* activist
C36_Witness ==
    /\ Parsed13d13g
    /\ call.input.download.raw.is_13d
    /\ call.input.download.raw.has_activism
    /\ call.input.download.raw.has_passive
    /\ call.result.value.fields.strategy = Str("activist")


\* C37: every filing_processing event is eventually followed by a
\* new_filing event of the same filing, whatever the generative reply and
\* also after a persistence error or a failure of the task.
C37_ProcessingLeadsToNewFiling ==
    \A a \in Acc : (ProcessingEvents(a) >= 1) ~> (NewFilingEvents(a) >= 1)


\* the calls of broadcast that are suspended in a send, inside their loop
Iterating == {b \in Broadcasts : manager.frames[b].pc = "sending"}

\* C38: while a broadcast iterates over the active set, the set is not
\* changed in a way that makes the broadcast fail (its size stays what it
\* was when the iteration began), whether another broadcast removes a dead
\* subscriber or a client connects or disconnects; no broadcast raises to
\* the pipeline.
C38_ActiveSetStable ==
    \A b \in Broadcasts :
       /\ b \in Iterating =>
             Cardinality(manager.active) = manager.frames[b].used
       /\ manager.frames[b].pc # "raised"


\* C39: every accession number in the filings table is also in the ledger,
\* in every reachable state: a filing is persisted only after its number was
\* reserved.
C39_PersistedIsReserved ==
    \A r \in BagToSet(filings) : r.accession_number \in seen_filings

\* a row is committed, its number is in the ledger, and its task has not yet
\* published it
C39_Witness ==
    \E t \in TaskIds :
       /\ tasks[t].pc = "refresh"
       /\ RowExists(AccOf(t))
       /\ AccOf(t) \in seen_filings
       /\ NewFilingEvents(AccOf(t)) = 0


\* C40: poll cycles never overlap. The one polling loop awaits each step in
\* turn: at most one _dedup call is active at any time; while the loop
\* polls, deduplicates or sleeps no task is unfinished; the tasks of a cycle
\* are created only when no earlier task is left, and the gather returns to
\* the sleep only when every one of them has ended; the next poll starts
\* only from the sleep.
C40_CyclesNeverOverlap ==
    /\ [](Cardinality({c \in Callers : dedup[c].pc \notin {"idle", "returned", "raised"}}) <= 1)
    /\ [](loop \in {"poll", "dedup", "sleep"} =>
             \A t \in TaskIds : tasks[t].pc \in Ended)
    /\ [][(loop # "gather" /\ loop' = "gather") =>
             /\ loop = "dedup"
             /\ tasks = <<>>]_vars
    /\ [][(loop = "gather" /\ loop' = "sleep") =>
             \A t \in TaskIds : tasks[t].pc \in Ended]_vars
    /\ [][(loop # "poll" /\ loop' = "poll") => loop = "sleep"]_vars

\* the second cycle deduplicates its batch after a first cycle whose tasks
\* published a filing: no task of the first cycle is left
C40_Witness ==
    /\ loop = "dedup"
    /\ dedup[1].pc \notin {"idle", "returned", "raised"}
    /\ seen_filings # {}
    /\ \E a \in Acc : NewFilingEvents(a) = 1
    /\ tasks = <<>>

=============================================================================
